---- MODULE Spec2Model ----
(***************************************************************************)
(* The GONDI fee ingestion of src/lib/blockchain.ts: the Fetch Cache       *)
(* (getCachedData / setCachedData), the Resilient Fetcher (fetchWithRetry),*)
(* the normalisation filters and the Ingestion Orchestrator                *)
(* (fetchEthereumTransactions) with its (hash, value) deduplication.       *)
(*                                                                         *)
(* JavaScript strings that the code parses or converts are sequences of    *)
(* one-character strings; strings that are only compared or passed on      *)
(* (hash, symbol, message) are TLA+ strings.  The clock `now` is Date.now()*)
(* in milliseconds counted from the start of the process.                  *)
(***************************************************************************)
EXTENDS Integers, Sequences, FiniteSets, TLC

VARIABLES
    apiKey,          \* ETHERSCAN_API_KEY is set (process.env, read at load)
    upstream,        \* what the ledger service holds for each URL
    now,             \* Date.now()
    cache,           \* API_CACHE : url -> entry
    fpc,             \* fetchWithRetry: "idle","attempt","backoff","returned","threw"
    fowner,          \* who awaits the running fetchWithRetry
    furl,            \* fetchWithRetry: url
    fretries,        \* fetchWithRetry: retries
    fi,              \* fetchWithRetry: loop index i
    fstart,          \* Date.now() when the running fetchWithRetry call began
    fresult,         \* fetchWithRetry: the list returned
    ferror,          \* fetchWithRetry: the error thrown
    gets,            \* HTTP GETs issued by the running fetchWithRetry call
    waits,           \* backoff delays slept by the running fetchWithRetry call
    lastResp,        \* the response the latest GET received
    pc,              \* fetchEthereumTransactions: position
    tokenResults,    \* settled outcome of the first token fetch
    internalResults, \* settled outcome of the internal fetch
    retryResults,    \* outcome of the direct retry of the token fetch
    transactions,    \* the accumulator `transactions`
    result,          \* what fetchEthereumTransactions returned
    threw,           \* fetchEthereumTransactions let an exception escape
    fetchCalls,      \* fetchWithRetry calls this invocation made, per url
    calls,           \* top-level calls made so far
    elapses,         \* idle periods so far
    collaborators,   \* GET /api/fees: what aggregateFees and the price lookup did
    apiResponse,     \* GET /api/fees: the response sent
    dlist,           \* deduplication study: the input list
    douts,           \* deduplication study: outputs of successive passes
    pvalue,          \* parseTransactionValue study: the argument `value`
    pdecimals,       \* parseTransactionValue study: the argument `decimals`
    preturn,         \* parseTransactionValue study: how the call ended
    lastGet,         \* url, time and number of the latest HTTP GET of this invocation
    atxs,            \* aggregation study: a Transaction list
    aperm,           \* aggregation study: a permutation of the list
    aprices,         \* aggregation study: the price mapping
    aouts,           \* aggregation study: what was computed for both lists
    peer,            \* overlapping requests: the locals of the invocation not running
    running,         \* overlapping requests: the invocation whose locals are above
    switches,        \* overlapping requests: turns of the event loop to the other one
    variant          \* the three-category variant: the locals of its invocation

vars == << apiKey, upstream, now, cache, fpc, fowner, furl, fretries, fi, fstart,
           fresult, ferror, gets, waits, lastResp, pc, tokenResults, internalResults,
           retryResults, transactions, result, threw, fetchCalls, calls, elapses,
           collaborators, apiResponse, dlist, douts, pvalue, pdecimals, preturn,
           lastGet, atxs, aperm, aprices, aouts, peer, running,
           switches, variant >>

fetchVars == << fpc, fowner, furl, fretries, fi, fstart, fresult, ferror, gets, waits,
                lastResp >>
orchVars  == << pc, tokenResults, internalResults, retryResults, transactions, result,
                threw, fetchCalls >>
dedupVars == << dlist, douts >>
apiVars   == << collaborators, apiResponse >>
parseVars == << pvalue, pdecimals, preturn >>
aggVars   == << atxs, aperm, aprices, aouts >>
overlapVars == << peer, running, switches >>
studyVars == << parseVars, aggVars, overlapVars, variant >>

(***************************************************************************)
(* Bounds of the exploration.                                              *)
(***************************************************************************)
MaxRecords == 2      \* longest result list the ledger service holds
MaxRetries == 5      \* largest `retries` a direct call of fetchWithRetry passes
MaxDirectCalls == 2  \* direct calls of fetchWithRetry in one behaviour
MaxElapses == 1      \* idle periods in one behaviour
MaxDedupLen == 3     \* longest list of the deduplication study

(***************************************************************************)
(* Program constants.                                                      *)
(***************************************************************************)
CACHE_DURATION == 30 * 60 * 1000
START_TIMESTAMP == 1761091200
DEFAULT_RETRIES == 3
PAUSE_MS == 1000
BACKOFF_BASE == 1000
BACKOFF_CAP == 5000

\* The value `undefined` of an absent field; no JavaScript string equals it.
Undefined == << "undefined" >>
\* Number.NaN, the result of parseInt on a string with no leading digit.
NaN == 0 - 1
\* `undefined` in a field the code only compares or passes on (the symbol).
NoSymbol == "(undefined)"

Digits == {"0", "1", "2", "3", "4", "5", "6", "7", "8", "9"}

DigitVal(c) ==
    CASE c = "0" -> 0 [] c = "1" -> 1 [] c = "2" -> 2 [] c = "3" -> 3 [] c = "4" -> 4
      [] c = "5" -> 5 [] c = "6" -> 6 [] c = "7" -> 7 [] c = "8" -> 8 [] c = "9" -> 9

\* String.prototype.toLowerCase on one character (the letters of a hex address).
LowerChar(c) ==
    CASE c = "A" -> "a" [] c = "B" -> "b" [] c = "C" -> "c" [] c = "D" -> "d"
      [] c = "E" -> "e" [] c = "F" -> "f" [] c = "X" -> "x" [] OTHER -> c

\* s?.toLowerCase(): undefined stays undefined.
ToLowerCase(s) == IF s = Undefined THEN Undefined ELSE [i \in DOMAIN s |-> LowerChar(s[i])]

\* JavaScript truthiness of a string-or-undefined value.
Truthy(s) == s # Undefined /\ s # << >>

RECURSIVE DigitPrefixLen(_)
DigitPrefixLen(s) ==
    IF s = << >> \/ Head(s) \notin Digits THEN 0 ELSE 1 + DigitPrefixLen(Tail(s))

RECURSIVE DecimalValue(_)
DecimalValue(s) ==
    IF s = << >> THEN 0
    ELSE 10 * DecimalValue(SubSeq(s, 1, Len(s) - 1)) + DigitVal(s[Len(s)])

\* parseInt(s): the number written by the leading digits, NaN when there is none.
ParseInt(s) ==
    LET n == DigitPrefixLen(s)
    IN  IF n = 0 THEN NaN ELSE DecimalValue(SubSeq(s, 1, n))

\* a < b on numbers: false when either side is NaN.
NumLess(a, b) == a # NaN /\ b # NaN /\ a < b

\* BigInt(s) throws a SyntaxError unless s is a decimal literal ("" is 0n).
BigIntThrows(s) == \E i \in DOMAIN s : s[i] \notin Digits
\* BigInt(s) > 0, for a decimal literal s.
BigIntPositive(s) == \E i \in DOMAIN s : s[i] \in Digits \ {"0"}

\* parseInt(ts) * 1000 exceeds the checker's integers: milliseconds are kept as
\* the pair << thousands, units >>, NaN * 1000 as << NaN, NaN >>.
TimesThousand(n) == IF n = NaN THEN << NaN, NaN >> ELSE << n, 0 >>

(***************************************************************************)
(* Addresses and URLs.  The 40-digit addresses are cut to their first hex  *)
(* digits, in the letter case the source writes them in.                   *)
(***************************************************************************)
GONDI_CONTRACT == << "0", "x", "4", "1", "6", "9", "4", "4", "7", "a" >>
USDC_CONTRACT  == << "0", "x", "A", "0", "b", "8" >>
WETH_CONTRACT  == << "0", "x", "c", "0", "2", "a" >>

tokenUrl == "tokentx"
internalUrl == "txlistinternal"
Urls == {tokenUrl, internalUrl}
(***************************************************************************)
(* Raw ledger records as the upstream returns them.                        *)
(***************************************************************************)
Raw(h, ts, v, to, ca, sym, dec) ==
    [ hash |-> h, timeStamp |-> ts, value |-> v, from |-> "0xf00d", to |-> to,
      contractAddress |-> ca, tokenSymbol |-> sym, tokenDecimal |-> dec,
      blockNumber |-> << "2", "3" >> ]

TsCutoff == << "1", "7", "6", "1", "0", "9", "1", "2", "0", "0" >>
TsLater  == << "1", "7", "6", "1", "1", "7", "7", "6", "0", "0" >>
GondiChecksummed == << "0", "x", "4", "1", "6", "9", "4", "4", "7", "A" >>
UsdcLower == << "0", "x", "a", "0", "b", "8" >>
WethMixed == << "0", "x", "C", "0", "2", "a" >>
OtherToken == << "0", "x", "d", "a", "c", "1" >>
V500 == << "5", "0", "0" >>
V700 == << "7", "0", "0" >>
VBad == << "5", "a" >>

\* a USDC transfer to the tracked contract, stamped exactly at the cutoff
TokA == Raw("0xabc", TsCutoff, V500, GONDI_CONTRACT, UsdcLower, "USDC", << "6" >>)
\* a WETH transfer under the alias symbol, addresses in checksum case
TokB == Raw("0xabc", TsLater, V700, GondiChecksummed, WethMixed, "WETHEREUM", Undefined)
\* a transfer whose value is no integer literal
TokC == Raw("0xdef", TsLater, VBad, GONDI_CONTRACT, UsdcLower, "USDC", << "6" >>)
\* a transfer of a token that is not allow-listed
TokD == Raw("0xabc", TsLater, V500, GONDI_CONTRACT, OtherToken, "USDT", << "6" >>)
TokenRaw == {TokA, TokB, TokC, TokD}

\* the internal transfer of the transaction TokA belongs to, same value
IntA == Raw("0xabc", TsLater, V500, GONDI_CONTRACT, Undefined, NoSymbol, Undefined)
\* an internal transfer whose value is no integer literal
IntC == Raw("0x123", TsLater, VBad, GONDI_CONTRACT, Undefined, NoSymbol, Undefined)
InternalRaw == {IntA, IntC}

SeqsUpTo(S, n) == UNION { [1..k -> S] : k \in 0..n }

RawOf(url) == IF url = tokenUrl THEN TokenRaw ELSE InternalRaw

(***************************************************************************)
(* Normalisation: the filter and map callbacks of fetchEthereumTransactions*)
(***************************************************************************)
\* The token filter without its allow-list test.
TokenVerdictAnyContract(tx) ==
    IF NumLess(ParseInt(tx.timeStamp), START_TIMESTAMP) THEN "reject"
    ELSE IF ToLowerCase(tx.to) # ToLowerCase(GONDI_CONTRACT) THEN "reject"
    ELSE IF ~Truthy(tx.value) THEN "reject"
    ELSE IF BigIntThrows(tx.value) THEN "throw"
    ELSE IF ~BigIntPositive(tx.value) THEN "reject"
    ELSE "accept"

\* The token filter callback on one record: "accept", "reject" or "throw".
TokenVerdict(tx) ==
    IF NumLess(ParseInt(tx.timeStamp), START_TIMESTAMP) THEN "reject"
    ELSE IF ToLowerCase(tx.to) # ToLowerCase(GONDI_CONTRACT) THEN "reject"
    ELSE IF ~Truthy(tx.value) THEN "reject"
    ELSE IF BigIntThrows(tx.value) THEN "throw"
    ELSE IF ~BigIntPositive(tx.value) THEN "reject"
    ELSE IF ToLowerCase(tx.contractAddress) = ToLowerCase(USDC_CONTRACT)
            \/ ToLowerCase(tx.contractAddress) = ToLowerCase(WETH_CONTRACT)
         THEN "accept"
    ELSE "reject"

\* The internal filter with `>= 0` for `> 0`.
InternalVerdictZeroValue(tx) ==
    IF NumLess(ParseInt(tx.timeStamp), START_TIMESTAMP) THEN "reject"
    ELSE IF ToLowerCase(tx.to) # ToLowerCase(GONDI_CONTRACT) THEN "reject"
    ELSE IF ~Truthy(tx.value) THEN "reject"
    ELSE IF BigIntThrows(tx.value) THEN "throw"
    ELSE "accept"

\* The internal filter callback on one record.
InternalVerdict(tx) ==
    IF NumLess(ParseInt(tx.timeStamp), START_TIMESTAMP) THEN "reject"
    ELSE IF ToLowerCase(tx.to) # ToLowerCase(GONDI_CONTRACT) THEN "reject"
    ELSE IF ~Truthy(tx.value) THEN "reject"
    ELSE IF BigIntThrows(tx.value) THEN "throw"
    ELSE IF BigIntPositive(tx.value) THEN "accept"
    ELSE "reject"

\* The token map callback passing the upstream symbol on as it is.
TokenMapKeepsAlias(tx) ==
    [ hash |-> tx.hash,
      timestamp |-> TimesThousand(ParseInt(tx.timeStamp)),
      value |-> tx.value,
      tokenSymbol |-> tx.tokenSymbol,
      tokenDecimal |-> ParseInt(IF Truthy(tx.tokenDecimal) THEN tx.tokenDecimal
                                ELSE << "1", "8" >>),
      from |-> tx.from, to |-> tx.to, network |-> "ethereum",
      blockNumber |-> ParseInt(tx.blockNumber) ]

\* The token map callback.
TokenMap(tx) ==
    [ hash |-> tx.hash,
      timestamp |-> TimesThousand(ParseInt(tx.timeStamp)),
      value |-> tx.value,
      tokenSymbol |-> IF tx.tokenSymbol = "WETHEREUM" THEN "WETH" ELSE tx.tokenSymbol,
      tokenDecimal |-> ParseInt(IF Truthy(tx.tokenDecimal) THEN tx.tokenDecimal
                                ELSE << "1", "8" >>),
      from |-> tx.from, to |-> tx.to, network |-> "ethereum",
      blockNumber |-> ParseInt(tx.blockNumber) ]

\* The internal map callback.
InternalMap(tx) ==
    [ hash |-> tx.hash,
      timestamp |-> TimesThousand(ParseInt(tx.timeStamp)),
      value |-> tx.value,
      tokenSymbol |-> "ETH",
      tokenDecimal |-> 18,
      from |-> tx.from, to |-> tx.to, network |-> "ethereum",
      blockNumber |-> ParseInt(IF Truthy(tx.blockNumber) THEN tx.blockNumber
                               ELSE << "0" >>) ]

\* tokenResults.value.filter(..).map(..): an exception in a callback ends the
\* whole chain; otherwise the accepted records are mapped in order.
NormalizeToken(list) ==
    IF \E i \in DOMAIN list : TokenVerdict(list[i]) = "throw"
    THEN [ threw |-> TRUE, list |-> << >> ]
    ELSE LET kept == SelectSeq(list, LAMBDA tx : TokenVerdict(tx) = "accept")
         IN  [ threw |-> FALSE,
               list |-> [i \in DOMAIN kept |-> TokenMap(kept[i])] ]

\* internalResults.value.filter(..).map(..), likewise.
NormalizeInternal(list) ==
    IF \E i \in DOMAIN list : InternalVerdict(list[i]) = "throw"
    THEN [ threw |-> TRUE, list |-> << >> ]
    ELSE LET kept == SelectSeq(list, LAMBDA tx : InternalVerdict(tx) = "accept")
         IN  [ threw |-> FALSE,
               list |-> [i \in DOMAIN kept |-> InternalMap(kept[i])] ]

(***************************************************************************)
(* Deduplication (uniqueTransactions).                                     *)
(***************************************************************************)
SameEvent(t, tx) == t.hash = tx.hash /\ t.value = tx.value

\* array.findIndex(t => t.hash === tx.hash && t.value === tx.value)
FindIndex(array, tx) ==
    IF \E i \in DOMAIN array : SameEvent(array[i], tx)
    THEN CHOOSE i \in DOMAIN array :
            /\ SameEvent(array[i], tx)
            /\ \A j \in 1..(i - 1) : ~SameEvent(array[j], tx)
    ELSE 0

RemoveAt(array, index) ==
    SubSeq(array, 1, index - 1) \o SubSeq(array, index + 1, Len(array))

\* Deduplication by splicing duplicates out of the array while walking it
\* forward: the element that slides into a freed slot is never looked at.
RECURSIVE SpliceFrom(_, _)
SpliceFrom(array, index) ==
    IF index > Len(array) THEN array
    ELSE IF FindIndex(array, array[index]) # index
         THEN SpliceFrom(RemoveAt(array, index), index + 1)
         ELSE SpliceFrom(array, index + 1)

DedupBySplicing(array) == SpliceFrom(array, 1)

RECURSIVE DedupFrom(_, _)
DedupFrom(array, index) ==
    IF index > Len(array) THEN << >>
    ELSE (IF FindIndex(array, array[index]) = index THEN << array[index] >> ELSE << >>)
         \o DedupFrom(array, index + 1)

\* transactions.filter((tx, index, array) => array.findIndex(..) === index)
Dedup(array) == DedupFrom(array, 1)
(***************************************************************************)
(* The Fetch Cache.                                                        *)
(***************************************************************************)
NoEntry == [ present |-> FALSE, data |-> << >>, timestamp |-> 0 ]

\* The freshness test with the boundary on the wrong side.
IsFreshInclusive(entry, t) == entry.present /\ (t - entry.timestamp) <= CACHE_DURATION

\* cached && (Date.now() - cached.timestamp) < CACHE_DURATION
IsFresh(entry, t) == entry.present /\ (t - entry.timestamp) < CACHE_DURATION

\* getCachedData without the age test: any entry is served.
GetCachedDataAnyAge(c, url, t) ==
    IF c[url].present THEN [ isNull |-> FALSE, data |-> c[url].data ]
    ELSE [ isNull |-> TRUE, data |-> << >> ]

\* getCachedData(url): the cached list, or null.
GetCachedData(c, url, t) ==
    IF IsFresh(c[url], t) THEN [ isNull |-> FALSE, data |-> c[url].data ]
    ELSE [ isNull |-> TRUE, data |-> << >> ]

\* A cache whose first entry for a url is never replaced.
SetCachedDataKeepsFirst(c, url, data, t) ==
    IF c[url].present THEN c
    ELSE [ c EXCEPT ![url] = [ present |-> TRUE, data |-> data, timestamp |-> t ] ]

\* setCachedData(url, data)
SetCachedData(c, url, data, t) ==
    [ c EXCEPT ![url] = [ present |-> TRUE, data |-> data, timestamp |-> t ] ]

(***************************************************************************)
(* Upstream responses to one HTTP GET.                                     *)
(***************************************************************************)
Response(k, ok, st, msg, isList, list, text) ==
    [ kind |-> k, ok |-> ok, status |-> st, message |-> msg,
      isList |-> isList, list |-> list, text |-> text ]

NoResponse    == Response("none", FALSE, "", "", FALSE, << >>, "")
\* fetch() rejects: no HTTP response at all
NetworkError  == Response("reject", FALSE, "", "", FALSE, << >>, "fetch failed")
\* a non-2xx status
Http429       == Response("http", FALSE, "", "", FALSE, << >>, "HTTP 429: Too Many Requests")
\* a 2xx response whose body is not JSON: response.json() rejects
BadJson       == Response("badjson", TRUE, "", "", FALSE, << >>, "Unexpected token <")
NoTransactions == Response("json", TRUE, "0", "No transactions found", TRUE, << >>, "")
RateLimited   == Response("json", TRUE, "0", "NOTOK", FALSE, << >>, "Max rate limit reached")
\* an error envelope with an empty message: the text is in `result`
EmptyMessage  == Response("json", TRUE, "0", "", FALSE, << >>, "Invalid API Key")
Success(list) == Response("json", TRUE, "1", "OK", TRUE, list, "")
\* status "1" with a result that is no array
NotAList      == Response("json", TRUE, "1", "OK", FALSE, << >>, "unexpected")

\* Every kind of response a GET of `url` can receive.
Responses(url) ==
    { NetworkError, Http429, BadJson, NoTransactions, RateLimited, EmptyMessage,
      Success(upstream[url]), NotAList }

\* One response of each kind the orchestrator can tell apart: a failed attempt,
\* "no results", a result list, a result that is no list.
OrchestratorResponses(url) ==
    { Http429, RateLimited, NoTransactions, Success(upstream[url]), NotAList }

NoError == [ type |-> "none", msg |-> "" ]

\* The "no results" test with another service's wording.
IsNoResultsOtherWording(resp) == resp.status = "0" /\ resp.message = "No records found"

\* data.status === '0' && data.message === 'No transactions found'
IsNoResults(resp) == resp.status = "0" /\ resp.message = "No transactions found"

\* The status check left out: every envelope goes on to the result field.
IsErrorEnvelopeNever(resp) == FALSE

\* data.status === '0' with any other message: throw new Error(`Etherscan API error: ..`)
IsErrorEnvelope(resp) == resp.status = "0" /\ ~IsNoResults(resp)

\* data.message || data.result
EnvelopeErrorText(resp) == IF resp.message # "" THEN resp.message ELSE resp.text

\* The cache written before the status checks, for every parsed envelope.
WritesCacheAlways(resp) == resp.kind = "json"

\* Whether the list an attempt returns is written to the cache (line 79 is
\* reached only past the status checks).
WritesCache(resp) == resp.kind = "json" /\ resp.status # "0"

\* A try block that never reaches its return statement: every response is
\* treated as a failed attempt.
AttemptOutcomeNeverReturns(resp) ==
    [ fails |-> TRUE, list |-> << >>, error |-> [ type |-> "http", msg |-> resp.text ] ]

\* The try block with a result that is no list treated as an error.
AttemptOutcomeStrictResult(resp) ==
    IF resp.kind = "reject"
    THEN [ fails |-> TRUE, list |-> << >>, error |-> [ type |-> "network", msg |-> resp.text ] ]
    ELSE IF ~resp.ok
    THEN [ fails |-> TRUE, list |-> << >>, error |-> [ type |-> "http", msg |-> resp.text ] ]
    ELSE IF resp.kind = "badjson"
    THEN [ fails |-> TRUE, list |-> << >>, error |-> [ type |-> "syntax", msg |-> resp.text ] ]
    ELSE IF IsNoResults(resp)
    THEN [ fails |-> FALSE, list |-> << >>, error |-> NoError ]
    ELSE IF IsErrorEnvelope(resp)
    THEN [ fails |-> TRUE, list |-> << >>,
           error |-> [ type |-> "etherscan", msg |-> EnvelopeErrorText(resp) ] ]
    ELSE IF ~resp.isList
    THEN [ fails |-> TRUE, list |-> << >>, error |-> [ type |-> "result", msg |-> resp.text ] ]
    ELSE [ fails |-> FALSE, list |-> resp.list, error |-> NoError ]

\* The body of the try block for one response: what the attempt does.
AttemptOutcome(resp) ==
    IF resp.kind = "reject"
    THEN [ fails |-> TRUE, list |-> << >>, error |-> [ type |-> "network", msg |-> resp.text ] ]
    ELSE IF ~resp.ok
    THEN [ fails |-> TRUE, list |-> << >>, error |-> [ type |-> "http", msg |-> resp.text ] ]
    ELSE IF resp.kind = "badjson"
    THEN [ fails |-> TRUE, list |-> << >>, error |-> [ type |-> "syntax", msg |-> resp.text ] ]
    ELSE IF IsNoResults(resp)
    THEN [ fails |-> FALSE, list |-> << >>, error |-> NoError ]
    ELSE IF IsErrorEnvelope(resp)
    THEN [ fails |-> TRUE, list |-> << >>,
           error |-> [ type |-> "etherscan", msg |-> EnvelopeErrorText(resp) ] ]
    ELSE [ fails |-> FALSE, list |-> IF resp.isList THEN resp.list ELSE << >>,
           error |-> NoError ]

\* The final-attempt test off by one: the loop runs out instead of throwing.
IsFinalAttemptOffByOne(i, retries) == i = retries

\* i === retries - 1
IsFinalAttempt(i, retries) == i = retries - 1

Min(a, b) == IF a < b THEN a ELSE b

\* The backoff without its cap.
BackoffUncapped(i) == BACKOFF_BASE * 2 ^ i

\* Math.min(5000, 1000 * Math.pow(2, i))
BackoffDelay(i) == Min(BACKOFF_CAP, BACKOFF_BASE * 2 ^ i)

(***************************************************************************)
(* fetchWithRetry(url, retries).                                           *)
(***************************************************************************)
\* A call that gives itself one attempt more than it was asked for.
FetchEnterOneMoreAttempt(url, retries, owner, t) ==
    LET cachedData == GetCachedData(cache, url, t)
    IN  /\ fowner' = owner
        /\ furl' = url
        /\ fretries' = retries + 1
        /\ fi' = 0
        /\ fstart' = t
        /\ ferror' = NoError
        /\ gets' = 0
        /\ waits' = << >>
        /\ lastResp' = NoResponse
        /\ IF ~cachedData.isNull
           THEN fpc' = "returned" /\ fresult' = cachedData.data
           ELSE fpc' = "attempt" /\ fresult' = << >>

\* The call up to its first await: the cache check and the loop entry.
FetchEnter(url, retries, owner, t) ==
    LET cachedData == GetCachedData(cache, url, t)
    IN  /\ fowner' = owner
        /\ furl' = url
        /\ fretries' = retries
        /\ fi' = 0
        /\ fstart' = t
        /\ ferror' = NoError
        /\ gets' = 0
        /\ waits' = << >>
        /\ lastResp' = NoResponse
        /\ IF ~cachedData.isNull
           THEN fpc' = "returned" /\ fresult' = cachedData.data
           ELSE IF 0 < retries
           THEN fpc' = "attempt" /\ fresult' = << >>
           ELSE fpc' = "returned" /\ fresult' = << >>

FetchIdle ==
    /\ fpc' = "idle"
    /\ fowner' = "none"
    /\ furl' = tokenUrl
    /\ fretries' = 0
    /\ fi' = 0
    /\ fstart' = 0
    /\ fresult' = << >>
    /\ ferror' = NoError
    /\ gets' = 0
    /\ waits' = << >>
    /\ lastResp' = NoResponse

\* One loop iteration: the GET, its response, and the catch block up to the
\* backoff timer.
FetchAttempt(resp) ==
    /\ fpc = "attempt"
    /\ gets' = gets + 1
    /\ lastResp' = resp
    /\ LET out == AttemptOutcome(resp)
       IN  IF ~out.fails
           THEN /\ fpc' = "returned"
                /\ fresult' = out.list
                /\ cache' = IF WritesCache(resp)
                            THEN SetCachedData(cache, furl, out.list, now)
                            ELSE cache
                /\ UNCHANGED << ferror, waits >>
           ELSE IF IsFinalAttempt(fi, fretries)
           THEN /\ fpc' = "threw"
                /\ ferror' = out.error
                /\ UNCHANGED << fresult, cache, waits >>
           ELSE /\ fpc' = "backoff"
                /\ waits' = Append(waits, BackoffDelay(fi))
                /\ UNCHANGED << fresult, ferror, cache >>
    /\ lastGet' = [ url |-> furl, at |-> now, n |-> lastGet.n + 1 ]
    /\ UNCHANGED << fowner, furl, fretries, fi, fstart, now >>
    /\ UNCHANGED << apiKey, upstream, calls, elapses >>
    /\ UNCHANGED orchVars
    /\ UNCHANGED dedupVars
    /\ UNCHANGED apiVars
    /\ UNCHANGED studyVars

\* The backoff timer fires: i++ and the loop test.
FetchBackoff ==
    /\ fpc = "backoff"
    /\ now' = now + waits[Len(waits)]
    /\ fi' = fi + 1
    /\ IF fi + 1 < fretries
       THEN fpc' = "attempt" /\ fresult' = fresult
       ELSE fpc' = "returned" /\ fresult' = << >>
    /\ UNCHANGED << fowner, furl, fretries, fstart, ferror, gets, waits, lastResp >>
    /\ UNCHANGED << apiKey, upstream, cache, calls, elapses >>
    /\ UNCHANGED orchVars
    /\ UNCHANGED dedupVars
    /\ UNCHANGED apiVars
    /\ UNCHANGED studyVars
    /\ UNCHANGED lastGet

FetchDone == fpc \in {"returned", "threw"}
(***************************************************************************)
(* fetchEthereumTransactions().                                            *)
(***************************************************************************)
\* No HTTP GET was issued yet.
NoGet == [ url |-> "none", at |-> 0, n |-> 0 ]

NotSettled == [ status |-> "none", value |-> << >>, reason |-> NoError ]

NoFetchCalls == [ u \in Urls |-> 0 ]

\* The credential check passes although no credential is set.
CredentialMissingIgnored == FALSE

\* !ETHERSCAN_API_KEY
CredentialMissing == ~apiKey

\* The direct retry is attempted whatever the first token fetch gave.
NeedsDirectRetryAlways(tr) == TRUE

\* The else branch of `tokenResults.status === 'fulfilled'`.
NeedsDirectRetry(tr) == tr.status # "fulfilled"

\* Promise.allSettled([fetchWithRetry(url)]).then(r => r[0])
Settled ==
    IF fpc = "returned"
    THEN [ status |-> "fulfilled", value |-> fresult, reason |-> NoError ]
    ELSE [ status |-> "rejected", value |-> << >>, reason |-> ferror ]

\* The outer catch block left out: the exception leaves the function.
CatchRethrows == [ threw |-> TRUE, list |-> << >> ]

\* The outer catch block: log and return [].
CatchOutcome == [ threw |-> FALSE, list |-> << >> ]

\* The inner catch block of the direct retry: log, and go on with what the
\* accumulator holds.
RetryContribution ==
    IF fpc = "returned"
    THEN LET n == NormalizeToken(fresult)
         IN  IF n.threw THEN << >> ELSE n.list
    ELSE << >>

\* The internal branch placed ahead of the token branch.
FinishIngestionInternalFirst(acc, internal) ==
    IF internal.status = "fulfilled"
    THEN LET n == NormalizeInternal(internal.value)
         IN  IF n.threw
             THEN [ transactions |-> acc, outcome |-> [ threw |-> FALSE, list |-> << >> ] ]
             ELSE [ transactions |-> n.list \o acc,
                    outcome |-> [ threw |-> FALSE, list |-> Dedup(n.list \o acc) ] ]
    ELSE [ transactions |-> acc,
           outcome |-> [ threw |-> FALSE, list |-> Dedup(acc) ] ]

\* From "Process internal ETH transactions" to the return statement, with the
\* accumulator as the token branch left it.
FinishIngestion(acc, internal) ==
    IF internal.status = "fulfilled"
    THEN LET n == NormalizeInternal(internal.value)
         IN  IF n.threw
             THEN [ transactions |-> acc, outcome |-> CatchOutcome ]
             ELSE [ transactions |-> acc \o n.list,
                    outcome |-> [ threw |-> FALSE, list |-> Dedup(acc \o n.list) ] ]
    ELSE [ transactions |-> acc,
           outcome |-> [ threw |-> FALSE, list |-> Dedup(acc) ] ]

Complete(fin) ==
    /\ pc' = "done"
    /\ transactions' = fin.transactions
    /\ result' = fin.outcome.list
    /\ threw' = fin.outcome.threw

\* The call up to its first await: the credential check and the token fetch.
Invoke ==
    /\ pc = "idle"
    /\ fpc = "idle"
    /\ calls = 0
    /\ calls' = calls + 1
    /\ tokenResults' = NotSettled
    /\ internalResults' = NotSettled
    /\ retryResults' = NotSettled
    /\ IF CredentialMissing
       THEN /\ Complete([ transactions |-> << >>, outcome |-> CatchOutcome ])
            /\ fetchCalls' = NoFetchCalls
            /\ UNCHANGED fetchVars
       ELSE /\ pc' = "tokenFetch"
            /\ transactions' = << >>
            /\ fetchCalls' = [ NoFetchCalls EXCEPT ![tokenUrl] = 1 ]
            /\ UNCHANGED << result, threw >>
            /\ FetchEnter(tokenUrl, DEFAULT_RETRIES, "token", now)
    /\ lastGet' = NoGet
    /\ UNCHANGED << apiKey, upstream, now, cache, elapses >>
    /\ UNCHANGED dedupVars
    /\ UNCHANGED apiVars
    /\ UNCHANGED studyVars

\* The token fetch settles; the one-second timer is set.
TokenSettled ==
    /\ pc = "tokenFetch"
    /\ FetchDone
    /\ tokenResults' = Settled
    /\ pc' = "pause"
    /\ FetchIdle
    /\ UNCHANGED << internalResults, retryResults, transactions, result, threw,
                    fetchCalls >>
    /\ UNCHANGED << apiKey, upstream, now, cache, calls, elapses >>
    /\ UNCHANGED dedupVars
    /\ UNCHANGED apiVars
    /\ UNCHANGED studyVars
    /\ UNCHANGED lastGet

\* The timer fires; the internal fetch starts.
PauseDone ==
    /\ pc = "pause"
    /\ now' = now + PAUSE_MS
    /\ pc' = "internalFetch"
    /\ FetchEnter(internalUrl, DEFAULT_RETRIES, "internal", now')
    /\ fetchCalls' = [ fetchCalls EXCEPT ![internalUrl] = @ + 1 ]
    /\ UNCHANGED << tokenResults, internalResults, retryResults, transactions, result,
                    threw >>
    /\ UNCHANGED << apiKey, upstream, cache, calls, elapses >>
    /\ UNCHANGED dedupVars
    /\ UNCHANGED apiVars
    /\ UNCHANGED studyVars
    /\ UNCHANGED lastGet

\* The internal fetch settles; everything up to the next await runs: the token
\* branch, and either the rest of the function or the start of the direct retry.
InternalSettled ==
    /\ pc = "internalFetch"
    /\ FetchDone
    /\ internalResults' = Settled
    /\ IF ~NeedsDirectRetry(tokenResults)
       THEN /\ LET n == NormalizeToken(tokenResults.value)
               IN  IF n.threw
                   THEN Complete([ transactions |-> << >>, outcome |-> CatchOutcome ])
                   ELSE Complete(FinishIngestion(n.list, Settled))
            /\ FetchIdle
            /\ UNCHANGED fetchCalls
       ELSE /\ pc' = "retryFetch"
            /\ FetchEnter(tokenUrl, DEFAULT_RETRIES, "retry", now)
            /\ fetchCalls' = [ fetchCalls EXCEPT ![tokenUrl] = @ + 1 ]
            /\ UNCHANGED << transactions, result, threw >>
    /\ UNCHANGED << tokenResults, retryResults >>
    /\ UNCHANGED << apiKey, upstream, now, cache, calls, elapses >>
    /\ UNCHANGED dedupVars
    /\ UNCHANGED apiVars
    /\ UNCHANGED studyVars
    /\ UNCHANGED lastGet

\* The direct retry of the token fetch ends; the rest of the function runs.
RetrySettled ==
    /\ pc = "retryFetch"
    /\ FetchDone
    /\ retryResults' = Settled
    /\ Complete(FinishIngestion(RetryContribution, internalResults))
    /\ FetchIdle
    /\ UNCHANGED << tokenResults, internalResults, fetchCalls >>
    /\ UNCHANGED << apiKey, upstream, now, cache, calls, elapses >>
    /\ UNCHANGED dedupVars
    /\ UNCHANGED apiVars
    /\ UNCHANGED studyVars
    /\ UNCHANGED lastGet

\* The caller takes the returned list.
Return ==
    /\ pc = "done"
    /\ pc' = "idle"
    /\ tokenResults' = NotSettled
    /\ internalResults' = NotSettled
    /\ retryResults' = NotSettled
    /\ transactions' = << >>
    /\ result' = << >>
    /\ threw' = FALSE
    /\ fetchCalls' = NoFetchCalls
    /\ UNCHANGED fetchVars
    /\ UNCHANGED << apiKey, upstream, now, cache, calls, elapses >>
    /\ UNCHANGED dedupVars
    /\ UNCHANGED apiVars
    /\ UNCHANGED studyVars
    /\ UNCHANGED lastGet

(***************************************************************************)
(* The environment: time passing between calls, and a direct caller of     *)
(* fetchWithRetry.                                                         *)
(***************************************************************************)
\* Idle periods that end just inside and just outside the freshness window.
ElapseSteps == {CACHE_DURATION - 1, CACHE_DURATION}

Elapse(d) ==
    /\ pc = "idle"
    /\ fpc = "idle"
    /\ elapses < MaxElapses
    /\ calls > 0
    /\ elapses' = elapses + 1
    /\ now' = now + d
    /\ UNCHANGED << apiKey, upstream, cache, calls >>
    /\ UNCHANGED fetchVars
    /\ UNCHANGED orchVars
    /\ UNCHANGED dedupVars
    /\ UNCHANGED apiVars
    /\ UNCHANGED studyVars
    /\ UNCHANGED lastGet

DirectCall(url, retries) ==
    /\ pc = "idle"
    /\ fpc = "idle"
    /\ calls < MaxDirectCalls
    /\ calls' = calls + 1
    /\ FetchEnter(url, retries, "direct", now)
    /\ UNCHANGED << apiKey, upstream, now, cache, elapses >>
    /\ UNCHANGED orchVars
    /\ UNCHANGED dedupVars
    /\ UNCHANGED apiVars
    /\ UNCHANGED studyVars
    /\ UNCHANGED lastGet

DirectReturn ==
    /\ fowner = "direct"
    /\ FetchDone
    /\ FetchIdle
    /\ UNCHANGED << apiKey, upstream, now, cache, calls, elapses >>
    /\ UNCHANGED orchVars
    /\ UNCHANGED dedupVars
    /\ UNCHANGED apiVars
    /\ UNCHANGED studyVars
    /\ UNCHANGED lastGet

(***************************************************************************)
(* Specifications.                                                         *)
(***************************************************************************)
\* GET /api/fees has not reached aggregateFees / has not responded.
NoCollaborators ==
    [ aggregate |-> [ called |-> FALSE, throws |-> FALSE, nullish |-> FALSE,
                      table |-> << >>, error |-> "" ],
      prices |-> [ called |-> FALSE, throws |-> FALSE, nullish |-> FALSE,
                   table |-> << >>, error |-> "" ],
      caught |-> "" ]
NoApiResponse == [ sent |-> FALSE ]

\* No call of parseTransactionValue is being studied.
NotCalledYet == [ called |-> FALSE ]
ParseIdle ==
    /\ pvalue = << >>
    /\ pdecimals = 0
    /\ preturn = NotCalledYet
\* No aggregation is being studied.
NotAggregated == [ done |-> FALSE ]
AggregateIdle ==
    /\ atxs = << >>
    /\ aperm = << >>
    /\ aprices = << >>
    /\ aouts = NotAggregated
\* The locals of an invocation that has not begun.
IdleLocals ==
    [ fpc |-> "idle", fowner |-> "none", furl |-> tokenUrl, fretries |-> 0, fi |-> 0,
      fstart |-> 0, fresult |-> << >>, ferror |-> NoError, gets |-> 0, waits |-> << >>,
      lastResp |-> NoResponse, pc |-> "idle", tokenResults |-> NotSettled,
      internalResults |-> NotSettled, retryResults |-> NotSettled,
      transactions |-> << >>, result |-> << >>, threw |-> FALSE,
      fetchCalls |-> NoFetchCalls, calls |-> 0, lastGet |-> NoGet ]
\* One request at a time.
OverlapIdle ==
    /\ peer = IdleLocals
    /\ running = 1
    /\ switches = 0
\* The three-category variant before its invocation: the responses each of
\* its fetchWithRetry calls received, the backoff delays, the settled results.
VariantCalls == {"token", "internal", "normal", "retry"}

NoVariant ==
    [ pc |-> "idle", call |-> "none", i |-> 0,
      feed |-> [ c \in VariantCalls |-> << >> ],
      waits |-> << >>,
      tokenResults |-> NotSettled, internalResults |-> NotSettled,
      normalResults |-> NotSettled, retryResults |-> NotSettled,
      transactions |-> << >>, result |-> << >> ]

VariantIdle == variant = NoVariant

StudiesIdle == ParseIdle /\ AggregateIdle /\ OverlapIdle /\ VariantIdle

InitProcess ==
    /\ now = 0
    /\ lastGet = NoGet
    /\ collaborators = NoCollaborators
    /\ apiResponse = NoApiResponse
    /\ cache = [ u \in Urls |-> NoEntry ]
    /\ fpc = "idle"
    /\ fowner = "none"
    /\ furl = tokenUrl
    /\ fretries = 0
    /\ fi = 0
    /\ fstart = 0
    /\ fresult = << >>
    /\ ferror = NoError
    /\ gets = 0
    /\ waits = << >>
    /\ lastResp = NoResponse
    /\ pc = "idle"
    /\ tokenResults = NotSettled
    /\ internalResults = NotSettled
    /\ retryResults = NotSettled
    /\ transactions = << >>
    /\ result = << >>
    /\ threw = FALSE
    /\ fetchCalls = NoFetchCalls
    /\ calls = 0
    /\ elapses = 0

\* A fresh process serving its first request, over every content of the ledger.
Init ==
    /\ InitProcess
    /\ apiKey \in BOOLEAN
    /\ upstream \in [ Urls -> SeqsUpTo(TokenRaw \cup InternalRaw, MaxRecords) ]
    /\ \A u \in Urls : \A i \in DOMAIN upstream[u] : upstream[u][i] \in RawOf(u)
    /\ dlist = << >>
    /\ douts = << >>
    /\ StudiesIdle

Next ==
    \/ Invoke
    \/ \E resp \in OrchestratorResponses(furl) : FetchAttempt(resp)
    \/ FetchBackoff
    \/ TokenSettled
    \/ PauseDone
    \/ InternalSettled
    \/ RetrySettled
    \/ Return

Spec == Init /\ [][Next]_vars

\* fetchWithRetry called directly, with every attempt budget up to MaxRetries.
InitFetch ==
    /\ InitProcess
    /\ apiKey = TRUE
    /\ upstream = [ u \in Urls |-> IF u = tokenUrl THEN << TokA >> ELSE << IntA >> ]
    /\ dlist = << >>
    /\ douts = << >>
    /\ StudiesIdle

NextFetch ==
    \/ \E u \in Urls, n \in 0..MaxRetries : DirectCall(u, n)
    \/ \E resp \in Responses(furl) : FetchAttempt(resp)
    \/ FetchBackoff
    \/ DirectReturn
    \/ \E d \in ElapseSteps : Elapse(d)

SpecFetch == InitFetch /\ [][NextFetch]_vars

\* The deduplication filter applied to a list, then to its own output.
TxUniverse ==
    { TokenMap(TokA), TokenMap(TokB), TokenMap(TokD), InternalMap(IntA),
      InternalMap(Raw("0xdef", TsLater, V500, GONDI_CONTRACT, Undefined, NoSymbol,
                      Undefined)) }

InitDedup ==
    /\ InitProcess
    /\ apiKey = TRUE
    /\ upstream = [ u \in Urls |-> << >> ]
    /\ dlist \in SeqsUpTo(TxUniverse, MaxDedupLen)
    /\ douts = << >>
    /\ StudiesIdle

DedupPass ==
    /\ Len(douts) < 2
    /\ douts' = Append(douts, Dedup(IF douts = << >> THEN dlist ELSE douts[Len(douts)]))
    /\ UNCHANGED << apiKey, upstream, now, cache, calls, elapses, dlist >>
    /\ UNCHANGED fetchVars
    /\ UNCHANGED orchVars
    /\ UNCHANGED apiVars
    /\ UNCHANGED studyVars
    /\ UNCHANGED lastGet

NextDedup == DedupPass

SpecDedup == InitDedup /\ [][NextDedup]_vars

(***************************************************************************)
(* One raw record per category, over every content of the fields the      *)
(* filters and maps read.                                                  *)
(***************************************************************************)
TsBefore == << "1", "7", "6", "1", "0", "9", "1", "1", "9", "9" >>
TsNotNumber == << "a", "b", "c" >>
OtherRecipient == << "0", "x", "9", "9", "9", "9", "9", "9", "9", "9" >>
VZero == << "0" >>

TimeStampValues == { TsCutoff, TsLater, TsBefore, TsNotNumber, << >>, Undefined }
RecipientValues == { GONDI_CONTRACT, GondiChecksummed, OtherRecipient, Undefined }
ValueValues == { V500, VZero, << >>, Undefined, VBad }

\* contractAddress, tokenSymbol and tokenDecimal as the token endpoint sends them
TokenKinds ==
    { << UsdcLower, "USDC", << "6" >> >>,
      << USDC_CONTRACT, "USDC", << >> >>,
      << WethMixed, "WETHEREUM", Undefined >>,
      << WETH_CONTRACT, "WETH", << "1", "8" >> >>,
      << OtherToken, "USDT", << "6" >> >>,
      << Undefined, NoSymbol, Undefined >> }

\* the same fields on an internal transfer: absent, or filled with a token's
InternalKinds ==
    { << Undefined, NoSymbol, Undefined >>,
      << UsdcLower, "USDC", << "6" >> >> }

TokenHash == "0xabc"
InternalHash == "0x123"

TokenRecords ==
    { Raw(TokenHash, ts, v, to, k[1], k[2], k[3]) :
        ts \in TimeStampValues, v \in ValueValues, to \in RecipientValues,
        k \in TokenKinds }

InternalRecords ==
    { Raw(InternalHash, ts, v, to, k[1], k[2], k[3]) :
        ts \in TimeStampValues, v \in ValueValues, to \in RecipientValues,
        k \in InternalKinds }

BaseToken == Raw(TokenHash, TsCutoff, V500, GONDI_CONTRACT, UsdcLower, "USDC", << "6" >>)
BaseInternal == Raw(InternalHash, TsLater, V500, GONDI_CONTRACT, Undefined, NoSymbol,
                    Undefined)

\* The ledger holds one record per category, one of them arbitrary.
InitRecords ==
    /\ InitProcess
    /\ apiKey = TRUE
    /\ \E t \in TokenRecords, n \in InternalRecords :
          /\ (t = BaseToken \/ n = BaseInternal)
          /\ upstream = [ u \in Urls |-> IF u = tokenUrl THEN << t >> ELSE << n >> ]
    /\ dlist = << >>
    /\ douts = << >>
    /\ StudiesIdle

\* Each GET either fails or delivers the ledger's list.
RecordResponses(url) == { Http429, Success(upstream[url]) }

NextRecords ==
    \/ Invoke
    \/ \E resp \in RecordResponses(furl) : FetchAttempt(resp)
    \/ FetchBackoff
    \/ TokenSettled
    \/ PauseDone
    \/ InternalSettled
    \/ RetrySettled
    \/ Return

SpecRecords == InitRecords /\ [][NextRecords]_vars

(***************************************************************************)
(* What the claims speak of.                                               *)
(***************************************************************************)
\* The elements of `list` at the indices in `keep`, in list order.
RECURSIVE SubseqAt(_, _, _)
SubseqAt(list, keep, i) ==
    IF i > Len(list) THEN << >>
    ELSE (IF i \in keep THEN << list[i] >> ELSE << >>) \o SubseqAt(list, keep, i + 1)

\* The first occurrence of each (hash, value) pair of `list`, in list order.
FirstOccurrences(list) ==
    SubseqAt(list,
             { i \in DOMAIN list :
                 \A j \in 1..(i - 1) :
                     ~(list[j].hash = list[i].hash /\ list[j].value = list[i].value) },
             1)

\* The normalisation of a category's raw records: the records that pass the
\* category's filter, mapped; a record whose value is no integer literal has no
\* positive value and does not pass.
ExpectedToken(list) ==
    LET kept == SelectSeq(list, LAMBDA tx : TokenVerdict(tx) = "accept")
    IN  [i \in DOMAIN kept |-> TokenMap(kept[i])]
ExpectedInternal(list) ==
    LET kept == SelectSeq(list, LAMBDA tx : InternalVerdict(tx) = "accept")
    IN  [i \in DOMAIN kept |-> InternalMap(kept[i])]

\* The raw token records this invocation obtained: from the first fetch, or
\* else from the direct retry.
TokenObtained ==
    IF tokenResults.status = "fulfilled"
    THEN [ ok |-> TRUE, list |-> tokenResults.value ]
    ELSE IF retryResults.status = "fulfilled"
    THEN [ ok |-> TRUE, list |-> retryResults.value ]
    ELSE [ ok |-> FALSE, list |-> << >> ]

InternalObtained ==
    IF internalResults.status = "fulfilled"
    THEN [ ok |-> TRUE, list |-> internalResults.value ]
    ELSE [ ok |-> FALSE, list |-> << >> ]

\* No raw record this invocation obtained makes a filter callback throw.
AllWellFormed ==
    /\ \A i \in DOMAIN TokenObtained.list : TokenVerdict(TokenObtained.list[i]) # "throw"
    /\ \A i \in DOMAIN InternalObtained.list :
          InternalVerdict(InternalObtained.list[i]) # "throw"

AllTransactions ==
    { TokenMap(r) : r \in TokenRaw } \cup { InternalMap(r) : r \in InternalRaw }

(***************************************************************************)
(* C1.  fetchEthereumTransactions never throws: whatever the upstream      *)
(* answers (HTTP failures, error envelopes, a missing credential, records  *)
(* whose value makes BigInt throw) no exception leaves it, what it returns *)
(* is a list of Transactions, and the list is empty when no category       *)
(* contributed a record.                                                   *)
(***************************************************************************)
C1_NeverThrows ==
    /\ threw = FALSE
    /\ pc = "done" =>
          /\ \A i \in DOMAIN result : result[i] \in AllTransactions
          /\ (transactions = << >> => result = << >>)

\* The internal filter threw after the token records had been pushed, and the
\* invocation still returned (an empty list).
C1_Witness ==
    /\ pc = "done"
    /\ apiKey
    /\ transactions # << >>
    /\ internalResults.status = "fulfilled"
    /\ NormalizeInternal(internalResults.value).threw
    /\ result = << >>

(***************************************************************************)
(* C2.  Categories are independent: when one category's fetch ultimately   *)
(* fails (for the token category: the first fetch and the direct retry)    *)
(* and the other's succeeds, the returned list is the deduplicated         *)
(* normalisation of the successful category's raw records.                 *)
(***************************************************************************)
C2_CategoriesIndependent ==
    (pc = "done" /\ apiKey) =>
        /\ (~TokenObtained.ok /\ InternalObtained.ok)
              => result = FirstOccurrences(ExpectedInternal(InternalObtained.list))
        /\ (TokenObtained.ok /\ ~InternalObtained.ok)
              => result = FirstOccurrences(ExpectedToken(TokenObtained.list))

\* The same statement over the invocations in which no raw record carries a
\* value that is no integer literal: there the code agrees with it.
CategoriesIndependentWhenWellFormed ==
    (pc = "done" /\ apiKey /\ AllWellFormed) =>
        /\ (~TokenObtained.ok /\ InternalObtained.ok)
              => result = FirstOccurrences(ExpectedInternal(InternalObtained.list))
        /\ (TokenObtained.ok /\ ~InternalObtained.ok)
              => result = FirstOccurrences(ExpectedToken(TokenObtained.list))

(***************************************************************************)
(* C3.  Deduplication keeps first occurrences: the returned list is the    *)
(* subsequence of the concatenated normalised list (token records, then    *)
(* internal records) made of the first occurrence of each (hash, value)    *)
(* pair, so no two returned Transactions share both hash and value.        *)
(***************************************************************************)
C3_DedupKeepsFirst ==
    (pc = "done" /\ apiKey) =>
        /\ result = FirstOccurrences(ExpectedToken(TokenObtained.list)
                                     \o ExpectedInternal(InternalObtained.list))
        /\ \A i, j \in DOMAIN result :
              (result[i].hash = result[j].hash /\ result[i].value = result[j].value)
                  => i = j

\* The same statement over the invocations in which no raw record carries a
\* value that is no integer literal: there the code agrees with it.
DedupKeepsFirstWhenWellFormed ==
    (pc = "done" /\ apiKey /\ AllWellFormed) =>
        result = FirstOccurrences(ExpectedToken(TokenObtained.list)
                                  \o ExpectedInternal(InternalObtained.list))

(***************************************************************************)
(* C4.  Deduplication is idempotent: the (hash, value) first-occurrence    *)
(* filter applied to its own output returns the same list in the same      *)
(* order, for every input list.                                            *)
(***************************************************************************)
C4_DedupIdempotent == Len(douts) = 2 => douts[2] = douts[1]

\* Three Transactions of one (hash, value) pair went in, one came out, twice.
C4_Witness ==
    /\ Len(douts) = 2
    /\ Len(dlist) = 3
    /\ \A i \in DOMAIN dlist : dlist[i].hash = dlist[1].hash /\ dlist[i].value = dlist[1].value
    /\ Len(douts[1]) = 1
(***************************************************************************)
(* The claims' reading of a response.                                      *)
(***************************************************************************)
\* A failed attempt: a network error, a non-2xx status, a body that is no
\* JSON, or an error envelope.
FailedAttempt(resp) ==
    \/ resp.kind \in {"reject", "http", "badjson"}
    \/ resp.kind = "json" /\ resp.status = "0" /\ resp.message # "No transactions found"

\* The "no results" envelope.
NoResultsEnvelope(resp) ==
    resp.kind = "json" /\ resp.ok /\ resp.status = "0"
        /\ resp.message = "No transactions found"

\* A successful envelope that is not "no results".
SuccessEnvelope(resp) == resp.kind = "json" /\ resp.ok /\ resp.status = "1"

\* The running call issued a GET (it did not end on the cache check).
Attempted == fpc # "idle" /\ gets > 0

RECURSIVE SumSeq(_)
SumSeq(q) == IF q = << >> THEN 0 ELSE Head(q) + SumSeq(Tail(q))

\* min(5000, 1000 * 2^i) ms for i = 0, 1, 2, ... written out.
Schedule == << 1000, 2000, 4000, 5000, 5000, 5000, 5000, 5000 >>

(***************************************************************************)
(* C5.  Retry exhaustion: a call of fetchWithRetry(url, N), N >= 1, that    *)
(* finds no fresh cache entry and whose attempts all fail issues exactly N *)
(* GETs and then throws the error of the final attempt; no call issues     *)
(* more than N GETs.                                                       *)
(***************************************************************************)
C5_RetryExhaustion ==
    /\ gets <= fretries
    /\ fpc = "threw" =>
          /\ gets = fretries
          /\ FailedAttempt(lastResp)
          /\ ferror.msg = (IF lastResp.kind = "json" /\ lastResp.message # ""
                           THEN lastResp.message ELSE lastResp.text)
    \* every attempt so far failed: the call is still running or has thrown
    /\ (Attempted /\ FailedAttempt(lastResp)) =>
          /\ fpc \in {"attempt", "backoff", "threw"}
          /\ (gets = fretries => fpc = "threw")

\* Five attempts, five failures, the last one an HTTP 429 whose error is thrown.
C5_Witness ==
    /\ fpc = "threw"
    /\ fretries = 5
    /\ gets = 5
    /\ lastResp = Http429
    /\ ferror.type = "http"

C7_NoTransactionsIsEmpty ==
    (Attempted /\ NoResultsEnvelope(lastResp)) =>
        /\ fpc = "returned"
        /\ fresult = << >>
        /\ ferror = NoError
        /\ gets = fi + 1
        /\ Len(waits) = fi

\* "No transactions found" on the second attempt, after one failure.
C7_Witness ==
    /\ fpc = "returned"
    /\ NoResultsEnvelope(lastResp)
    /\ gets = 2
    /\ fretries = 3
    /\ waits = << 1000 >>

(***************************************************************************)
(* C8.  An envelope whose status flag is neither success nor the "no       *)
(* results" case is a failure of that attempt: it counts against the       *)
(* attempt budget, is retried when attempts remain, and the error raised   *)
(* carries the upstream message.                                           *)
(***************************************************************************)
C8_ErrorEnvelopeFails ==
    (Attempted /\ lastResp.kind = "json" /\ lastResp.status = "0"
               /\ lastResp.message # "No transactions found") =>
        /\ fpc \in {"attempt", "backoff", "threw"}
        /\ fpc \in {"attempt", "backoff"} => gets < fretries
        /\ fpc = "backoff" => gets = fi + 1
        /\ fpc = "attempt" => gets = fi
        /\ fpc = "threw" =>
              /\ gets = fretries
              /\ ferror.type = "etherscan"
              /\ (lastResp.message # "" => ferror.msg = lastResp.message)

\* The third of three attempts gets the rate-limit envelope: its message is thrown.
C8_Witness ==
    /\ fpc = "threw"
    /\ fretries = 3
    /\ lastResp = RateLimited
    /\ ferror = [ type |-> "etherscan", msg |-> "NOTOK" ]

(***************************************************************************)
(* C9.  Cache writes happen only on success: fetchWithRetry writes the     *)
(* entry of exactly the requested URL, and only when an attempt returns a  *)
(* successful envelope that is not "no results"; a failed attempt, an      *)
(* exhausted budget and a "No transactions found" response leave every     *)
(* entry as it was.                                                        *)
(***************************************************************************)
C9_CacheWritesOnlyOnSuccess ==
    [][ /\ (cache' # cache) =>
              /\ fpc = "attempt"
              /\ fpc' = "returned"
              /\ SuccessEnvelope(lastResp')
              /\ \A u \in Urls \ {furl} : cache'[u] = cache[u]
        /\ (gets' = gets + 1 /\ SuccessEnvelope(lastResp')) =>
              cache'[furl] = [ present |-> TRUE, data |-> fresult', timestamp |-> now ]
        /\ (gets' = gets + 1 /\ ~SuccessEnvelope(lastResp')) => cache' = cache
      ]_vars

\* A call for the token URL ran out of attempts and "No transactions found"
\* never wrote: the cache holds the internal entry an earlier call wrote, alone.
C9_Witness ==
    /\ fpc = "threw"
    /\ furl = tokenUrl
    /\ ~cache[tokenUrl].present
    /\ cache[internalUrl].present
    /\ cache[internalUrl].data = upstream[internalUrl]

(***************************************************************************)
(* C10.  A cache hit bypasses the network: with an entry for the exact URL *)
(* written less than 30 minutes ago fetchWithRetry returns that entry's    *)
(* list and issues no GET; with no entry, or one 30 minutes old or older,  *)
(* the entry is not returned and a network attempt is made, whose          *)
(* successful result replaces the entry.                                   *)
(***************************************************************************)
C10_CacheHitBypassesNetwork ==
    [][ \* the step that enters fetchWithRetry
        /\ (fpc = "idle" /\ fpc' # "idle") =>
              LET entry == cache[furl']
              IN  IF entry.present /\ now' - entry.timestamp < 30 * 60 * 1000
                  THEN /\ fpc' = "returned"
                       /\ fresult' = entry.data
                       /\ gets' = 0
                       /\ cache' = cache
                  ELSE fretries' >= 1 => (fpc' = "attempt" /\ gets' = 0)
        /\ (fpc = "attempt" /\ fpc' = "returned" /\ SuccessEnvelope(lastResp')) =>
              /\ cache'[furl].present
              /\ cache'[furl].data = fresult'
              /\ cache'[furl].timestamp = now
        \* a call that has returned issues no GET afterwards
        /\ fpc = "returned" => gets' \in {gets, 0}
      ]_vars

\* An entry one millisecond short of 30 minutes old is served without a GET.
C10_Witness ==
    /\ fpc = "returned"
    /\ gets = 0
    /\ fretries >= 1
    /\ cache[furl].present
    /\ now - cache[furl].timestamp = CACHE_DURATION - 1
    /\ fresult = cache[furl].data

\* An entry exactly 30 minutes old is passed over and replaced by a new fetch.
C10_WitnessStale ==
    /\ fpc = "returned"
    /\ gets = 1
    /\ cache[furl].present
    /\ cache[furl].timestamp = CACHE_DURATION
    /\ now = CACHE_DURATION

(***************************************************************************)
(* C11.  Critical-category fallback: in one invocation, when the first     *)
(* token fetch fails the orchestrator calls the token fetch exactly once   *)
(* more and normalises what it gives (and, if that fails too, goes on with *)
(* no token record); when the first token fetch succeeds no further token  *)
(* fetch is made; the internal fetch is never called a second time.        *)
(***************************************************************************)
C11_CriticalFallback ==
    /\ fetchCalls[internalUrl] <= 1
    /\ (pc = "done" /\ apiKey) =>
          /\ tokenResults.status \in {"fulfilled", "rejected"}
          /\ tokenResults.status = "fulfilled" =>
                /\ fetchCalls[tokenUrl] = 1
                /\ retryResults.status = "none"
          /\ tokenResults.status = "rejected" =>
                /\ fetchCalls[tokenUrl] = 2
                /\ retryResults.status \in {"fulfilled", "rejected"}
                /\ internalResults.status \in {"fulfilled", "rejected"}
                /\ (retryResults.status = "fulfilled" /\ AllWellFormed) =>
                      result = FirstOccurrences(ExpectedToken(retryResults.value)
                                                \o ExpectedInternal(InternalObtained.list))
                /\ (retryResults.status = "rejected" /\ AllWellFormed) =>
                      result = FirstOccurrences(ExpectedInternal(InternalObtained.list))
                /\ retryResults.status = "rejected" =>
                      \A i \in DOMAIN result : result[i].tokenSymbol = "ETH"

\* The first token fetch failed, the direct retry obtained records, and they
\* are in the returned list.
C11_Witness ==
    /\ pc = "done"
    /\ tokenResults.status = "rejected"
    /\ retryResults.status = "fulfilled"
    /\ fetchCalls[tokenUrl] = 2
    /\ fetchCalls[internalUrl] = 1
    /\ \E i \in DOMAIN result : result[i].tokenSymbol = "USDC"

(***************************************************************************)
(* C12.  With no API credential fetchEthereumTransactions fails fast: it   *)
(* never calls fetchWithRetry, so no GET is issued to the ledger service   *)
(* and the Fetch Cache is neither read nor written.                        *)
(***************************************************************************)
C12_CredentialFailFast ==
    ~apiKey =>
        /\ fpc = "idle"
        /\ gets = 0
        /\ \A u \in Urls : fetchCalls[u] = 0 /\ ~cache[u].present

\* The invocation without a credential has ended, with an empty list.
C12_Witness ==
    /\ ~apiKey
    /\ pc = "done"
    /\ result = << >>
    /\ gets = 0

(***************************************************************************)
(* The raw record a returned Transaction was made from: each category      *)
(* holds one record, under its own hash.                                   *)
(***************************************************************************)
RawRecords == { upstream[u][i] : u \in Urls, i \in 1..1 }
TokenRecord == upstream[tokenUrl][1]
InternalRecord == upstream[internalUrl][1]

\* s is a decimal literal of an integer greater than 0.
IsPositiveInteger(s) ==
    /\ s # Undefined
    /\ s # << >>
    /\ \A i \in DOMAIN s : s[i] \in Digits
    /\ \E i \in DOMAIN s : s[i] # "0"

\* a is the tracked contract's address, ignoring case.
IsTrackedContract(a) ==
    /\ a # Undefined
    /\ ToLowerCase(a) = << "0", "x", "4", "1", "6", "9", "4", "4", "7", "a" >>

\* The token record was obtained by the direct retry.
ViaFallback == tokenResults.status = "rejected" /\ retryResults.status = "fulfilled"

(***************************************************************************)
(* C15.  Every Transaction fetchEthereumTransactions returns, from either  *)
(* category and from the fallback path, has `to` equal to the tracked      *)
(* contract ignoring case and a value greater than 0; a raw record whose   *)
(* `to` is missing or different, or whose value is missing, empty or zero, *)
(* is not in the output.                                                   *)
(***************************************************************************)
C15_RecipientAndValue ==
    pc = "done" =>
        /\ \A i \in DOMAIN result :
              IsTrackedContract(result[i].to) /\ IsPositiveInteger(result[i].value)
        /\ \A r \in RawRecords :
              (\/ ~IsTrackedContract(r.to)
               \/ r.value \in { Undefined, << >>, << "0" >> })
              => \A i \in DOMAIN result : result[i].hash # r.hash

\* A token record addressed in checksum case came through the fallback path.
C15_Witness ==
    /\ pc = "done"
    /\ ViaFallback
    /\ TokenRecord.to = GondiChecksummed
    /\ Len(result) = 2
    /\ result[1].hash = TokenHash
    /\ result[1].to = GondiChecksummed

\* An internal record of value zero was fetched and dropped.
C15_WitnessDropped ==
    /\ pc = "done"
    /\ internalResults.status = "fulfilled"
    /\ InternalRecord.value = << "0" >>
    /\ IsTrackedContract(InternalRecord.to)
    /\ Len(result) = 1
    /\ result[1].hash = TokenHash

(***************************************************************************)
(* C16.  Every Transaction returned has a timestamp at or after the cutoff *)
(* 2025-10-22T00:00:00Z (1761091200000 ms), whatever the raw timeStamp     *)
(* holds: earlier than the cutoff, missing, or not a number.               *)
(***************************************************************************)
C16_TimestampCutoff ==
    pc = "done" =>
        \A i \in DOMAIN result :
            /\ result[i].timestamp[1] # NaN
            /\ result[i].timestamp[1] >= 1761091200

\* The same, for ledgers whose timeStamp fields all begin with a digit.
TimestampCutoffWhenNumeric ==
    (pc = "done" /\ \A r \in RawRecords : ParseInt(r.timeStamp) # NaN) =>
        \A i \in DOMAIN result : result[i].timestamp[1] >= 1761091200

(***************************************************************************)
(* C17.  A token record is accepted only if its contractAddress is, ignoring*)
(* case, the USDC or the WETH contract; a record with another or no         *)
(* contractAddress is rejected, on the first-fetch path and on the          *)
(* fallback path.                                                           *)
(***************************************************************************)
C17_TokenAllowList ==
    pc = "done" =>
        \A i \in DOMAIN result :
            result[i].hash = TokenRecord.hash =>
                /\ TokenRecord.contractAddress # Undefined
                /\ ToLowerCase(TokenRecord.contractAddress)
                       \in { << "0", "x", "a", "0", "b", "8" >>,
                             << "0", "x", "c", "0", "2", "a" >> }

\* A WETH record in mixed case accepted through the fallback path.
C17_Witness ==
    /\ pc = "done"
    /\ ViaFallback
    /\ TokenRecord.contractAddress = WethMixed
    /\ \E i \in DOMAIN result : result[i].hash = TokenRecord.hash

\* A USDC record written as the source writes the address, accepted on the
\* first-fetch path.
C17_WitnessFirstPath ==
    /\ pc = "done"
    /\ tokenResults.status = "fulfilled"
    /\ TokenRecord.contractAddress = USDC_CONTRACT
    /\ \E i \in DOMAIN result : result[i].hash = TokenRecord.hash

(***************************************************************************)
(* C18.  Asset tagging: a token record whose upstream symbol is WETHEREUM  *)
(* is emitted as WETH, any other symbol unchanged, with tokenDecimal taken *)
(* from the record and 18 when absent; an internal record is emitted as    *)
(* ETH with tokenDecimal 18 whatever its own fields hold.                  *)
(***************************************************************************)
C18_AssetTagging ==
    pc = "done" =>
        \A i \in DOMAIN result :
            /\ result[i].hash = TokenRecord.hash =>
                  /\ result[i].tokenSymbol =
                        (IF TokenRecord.tokenSymbol = "WETHEREUM" THEN "WETH"
                         ELSE TokenRecord.tokenSymbol)
                  /\ result[i].tokenDecimal =
                        (CASE TokenRecord.tokenDecimal = << "6" >> -> 6
                           [] TokenRecord.tokenDecimal = << "1", "8" >> -> 18
                           [] TokenRecord.tokenDecimal \in { Undefined, << >> } -> 18)
            /\ result[i].hash = InternalRecord.hash =>
                  /\ result[i].tokenSymbol = "ETH"
                  /\ result[i].tokenDecimal = 18

\* The alias rewritten, with the default precision, beside an internal record.
C18_Witness ==
    /\ pc = "done"
    /\ Len(result) = 2
    /\ TokenRecord.tokenSymbol = "WETHEREUM"
    /\ TokenRecord.tokenDecimal = Undefined
    /\ result[1].tokenSymbol = "WETH"
    /\ result[1].tokenDecimal = 18
    /\ result[2].tokenSymbol = "ETH"
    /\ result[2].tokenDecimal = 18

\* An internal record that carries a token's symbol and precision.
C18_WitnessInternal ==
    /\ pc = "done"
    /\ Len(result) = 2
    /\ InternalRecord.tokenSymbol = "USDC"
    /\ InternalRecord.tokenDecimal = << "6" >>
    /\ result[2].hash = InternalRecord.hash
    /\ result[2].tokenSymbol = "ETH"
    /\ result[2].tokenDecimal = 18

(***************************************************************************)
(* The read API: GET /api/fees (src/app/api/fees/route.ts).                *)
(*                                                                         *)
(* A JavaScript number that parseTransactionValue returns is kept exactly, *)
(* as units * 10^-scale; unit prices are whole numbers.  aggregateFees and *)
(* getMultipleTokenPrices are collaborators: each call either throws or    *)
(* works with one of the price tables below.                               *)
(***************************************************************************)
RECENT_LIMIT == 20
DEFAULT_DECIMALS == 18
STATUS_OK == 200
STATUS_SERVER_ERROR == 500

\* String.prototype.toUpperCase on the symbols the ledger sends.
ToUpperCase(s) == CASE s = "usdc" -> "USDC" [] s = "weth" -> "WETH" [] OTHER -> s

\* (tx.tokenSymbol || '').toUpperCase()
CurrencyOf(tx) ==
    IF tx.tokenSymbol \in { NoSymbol, "" } THEN "" ELSE ToUpperCase(tx.tokenSymbol)

\* tx.tokenDecimal || 18
DecimalsOrDefault(d) == IF d = NaN \/ d = 0 THEN DEFAULT_DECIMALS ELSE d

Number(units, scale) ==
    IF units = 0 THEN [ units |-> 0, scale |-> 0 ] ELSE [ units |-> units, scale |-> scale ]

\* parseTransactionValue as the recent-transaction entries use it: the
\* decimal units * 10^-scale that the returned double stands for (0 when
\* BigInt(value) throws).  The values of the ledgers studied here are far
\* below 2^53, where the double is the one nearest to this decimal.
ParsedAmount(value, decimals) ==
    IF value = Undefined \/ BigIntThrows(value) THEN Number(0, 0)
    ELSE Number(DecimalValue(value), decimals)

\* prices[currency] || 0
PriceOf(prices, currency) == IF currency \in DOMAIN prices THEN prices[currency] ELSE 0

\* (a, b) => b.timestamp - a.timestamp as Array.prototype.sort reads it: its
\* sign, with NaN counted as 0.
CompareRecent(a, b) ==
    IF a.timestamp[1] = NaN \/ b.timestamp[1] = NaN THEN 0
    ELSE IF b.timestamp[1] < a.timestamp[1] THEN 0 - 1
    ELSE IF b.timestamp[1] > a.timestamp[1] THEN 1
    ELSE 0

\* x put behind every element the comparator does not order after it.
RECURSIVE InsertSorted(_, _)
InsertSorted(sorted, x) ==
    IF sorted = << >> THEN << x >>
    ELSE IF CompareRecent(Head(sorted), x) <= 0
    THEN << Head(sorted) >> \o InsertSorted(Tail(sorted), x)
    ELSE << x >> \o sorted

\* [...transactions].sort(...): the stable sort of the list.
RECURSIVE SortRecent(_)
SortRecent(list) ==
    IF list = << >> THEN << >>
    ELSE InsertSorted(SortRecent(SubSeq(list, 1, Len(list) - 1)), list[Len(list)])

\* .slice(0, n)
Slice(list, n) == SubSeq(list, 1, Min(n, Len(list)))

\* The map callback of recentTransactions.
RecentEntry(tx, prices) ==
    [ hash |-> tx.hash, timestamp |-> tx.timestamp, tokenSymbol |-> tx.tokenSymbol,
      value |-> tx.value, tokenDecimal |-> DecimalsOrDefault(tx.tokenDecimal),
      from |-> tx.from, to |-> tx.to, network |-> tx.network,
      usdValue |->
          LET parsed == ParsedAmount(tx.value, DecimalsOrDefault(tx.tokenDecimal))
          IN  Number(parsed.units * PriceOf(prices, CurrencyOf(tx)), parsed.scale) ]

RecentTransactions(txs, prices) ==
    LET recent == Slice(SortRecent(txs), RECENT_LIMIT)
    IN  [ i \in DOMAIN recent |-> RecentEntry(recent[i], prices) ]

\* aggregateFees as GET /api/fees passes it on: a breakdown per distinct
\* symbol present, with the number of its transactions and the unit price
\* used.  The sums of a breakdown are those of AggregateFees below.
AggregateCounts(txs, prices) ==
    [ currencyBreakdown |->
        [ c \in { txs[i].tokenSymbol : i \in DOMAIN txs } |->
            [ count |-> Cardinality({ i \in DOMAIN txs : txs[i].tokenSymbol = c }),
              price |-> PriceOf(prices, ToUpperCase(c)) ] ] ]

\* What a collaborator call did: it was not reached, it threw an error with
\* a message, it resolved to a price table, or it resolved to undefined.
NotCalled ==
    [ called |-> FALSE, throws |-> FALSE, nullish |-> FALSE, table |-> << >>, error |-> "" ]
Throws(msg) ==
    [ called |-> TRUE, throws |-> TRUE, nullish |-> FALSE, table |-> << >>, error |-> msg ]
Gives(table) ==
    [ called |-> TRUE, throws |-> FALSE, nullish |-> FALSE, table |-> table, error |-> "" ]
GivesUndefined ==
    [ called |-> TRUE, throws |-> FALSE, nullish |-> TRUE, table |-> << >>, error |-> "" ]

\* Messages of the errors a collaborator throws.
ErrorMessages ==
    { "connect ECONNREFUSED 10.0.0.7:5432",
      "Request failed with status code 401: invalid key sk-live-12" }

\* prices[currency] on undefined
NullishReadError == "Cannot read properties of undefined"

\* The price lookup knows every asset, only USDC, or none.
PriceTables ==
    { [ c \in {"USDC", "WETH", "ETH"} |-> IF c = "USDC" THEN 1 ELSE 3 ],
      [ c \in {"USDC"} |-> 2 ],
      [ c \in {"ETH"} |-> 0 ] }

CollaboratorOutcomes ==
    { Throws(m) : m \in ErrorMessages } \cup { Gives(t) : t \in PriceTables }

\* The price lookup may also resolve to no table at all.
PriceOutcomes == CollaboratorOutcomes \cup { GivesUndefined }

NoCacheHeaders ==
    { << "Cache-Control", "no-store, no-cache, must-revalidate, max-age=0" >>,
      << "Pragma", "no-cache" >>,
      << "Expires", "0" >> }

\* A success response for a non-empty ingestion only.
SuccessUnlessEmpty(data, recentTransactions) ==
    IF recentTransactions = << >>
    THEN [ sent |-> TRUE, status |-> STATUS_SERVER_ERROR, headers |-> { },
           body |-> [ success |-> FALSE, error |-> "Failed to fetch fee data" ] ]
    ELSE [ sent |-> TRUE, status |-> STATUS_OK, headers |-> NoCacheHeaders,
           body |-> [ success |-> TRUE, data |-> data,
                      recentTransactions |-> recentTransactions ] ]

\* NextResponse.json({ success: true, ... }, { headers })
SuccessResponse(data, recentTransactions) ==
    [ sent |-> TRUE, status |-> STATUS_OK, headers |-> NoCacheHeaders,
      body |-> [ success |-> TRUE, data |-> data,
                 recentTransactions |-> recentTransactions ] ]

\* A failure payload that reports the caught error's message.
FailureBodyLeaksMessage(error) == [ success |-> FALSE, error |-> error ]

\* The payload of the catch block: the caught error is logged, not sent.
FailureBody(error) == [ success |-> FALSE, error |-> "Failed to fetch fee data" ]

\* catch (error): NextResponse.json({ success: false, ... }, { status: 500 })
CatchResponse(error) ==
    [ sent |-> TRUE, status |-> STATUS_SERVER_ERROR, headers |-> { },
      body |-> FailureBody(error) ]

\* The recentTransactions map callback reads prices[currency]: a TypeError
\* when the lookup resolved to undefined and there is an entry to map.
MappingThrows(txs, prices) == prices.nullish /\ Slice(txs, RECENT_LIMIT) # << >>

\* GET from the return of fetchEthereumTransactions to the response.
GetRespond(agg, prices) ==
    /\ pc = "done"
    /\ ~apiResponse.sent
    /\ pc' = "responded"
    /\ IF threw
       THEN /\ collaborators' = [ aggregate |-> NotCalled, prices |-> NotCalled,
                                  caught |-> "fetchEthereumTransactions" ]
            /\ apiResponse' = CatchResponse("fetchEthereumTransactions")
       ELSE IF agg.throws
       THEN /\ collaborators' = [ aggregate |-> agg, prices |-> NotCalled,
                                  caught |-> agg.error ]
            /\ apiResponse' = CatchResponse(agg.error)
       ELSE IF prices.throws
       THEN /\ collaborators' = [ aggregate |-> agg, prices |-> prices,
                                  caught |-> prices.error ]
            /\ apiResponse' = CatchResponse(prices.error)
       ELSE IF MappingThrows(result, prices)
       THEN /\ collaborators' = [ aggregate |-> agg, prices |-> prices,
                                  caught |-> NullishReadError ]
            /\ apiResponse' = CatchResponse(NullishReadError)
       ELSE /\ collaborators' = [ aggregate |-> agg, prices |-> prices, caught |-> "" ]
            /\ apiResponse' = SuccessResponse(AggregateCounts(result, agg.table),
                                              RecentTransactions(result, prices.table))
    /\ UNCHANGED << tokenResults, internalResults, retryResults, transactions, result,
                    threw, fetchCalls >>
    /\ UNCHANGED << apiKey, upstream, now, cache, calls, elapses >>
    /\ UNCHANGED fetchVars
    /\ UNCHANGED dedupVars
    /\ UNCHANGED studyVars
    /\ UNCHANGED lastGet

\* An internal transfer whose timeStamp is the empty string.
IntNoTime == Raw(InternalHash, << >>, V500, GONDI_CONTRACT, Undefined, NoSymbol, Undefined)

\* What the ledger holds when GET /api/fees is studied: up to two token
\* records and up to one internal record.
ApiLedgers ==
    { [ u \in Urls |-> IF u = tokenUrl THEN tl ELSE il ] :
        tl \in { << >>, << TokA >>, << TokA, TokB >> },
        il \in { << >>, << IntA >>, << BaseInternal >>, << IntNoTime >> } }

\* One request served by a fresh process.
InitApi ==
    /\ InitProcess
    /\ apiKey \in BOOLEAN
    /\ upstream \in ApiLedgers
    /\ (upstream[internalUrl] = << IntNoTime >> => Len(upstream[tokenUrl]) <= 1)
    /\ dlist = << >>
    /\ douts = << >>
    /\ StudiesIdle

NextApi ==
    \/ Invoke
    \/ \E resp \in RecordResponses(furl) : FetchAttempt(resp)
    \/ FetchBackoff
    \/ TokenSettled
    \/ PauseDone
    \/ InternalSettled
    \/ RetrySettled
    \/ \E agg \in CollaboratorOutcomes, prices \in PriceOutcomes :
          GetRespond(agg, prices)

SpecApi == InitApi /\ [][NextApi]_vars

(***************************************************************************)
(* A ledger of many token transfers and one internal transfer.             *)
(***************************************************************************)
MaxTransactions == 22   \* most token records the ledger holds

DigitChar(d) ==
    CASE d = 0 -> "0" [] d = 1 -> "1" [] d = 2 -> "2" [] d = 3 -> "3" [] d = 4 -> "4"
      [] d = 5 -> "5" [] d = 6 -> "6" [] d = 7 -> "7" [] d = 8 -> "8" [] d = 9 -> "9"

RECURSIVE ToDigits(_)
ToDigits(n) ==
    IF n < 10 THEN << DigitChar(n) >>
    ELSE ToDigits(n \div 10) \o << DigitChar(n % 10) >>

\* k seconds after TsLater, k in 0..99
GenTimeStamp(k) ==
    << "1", "7", "6", "1", "1", "7", "7", "6", DigitChar(k \div 10), DigitChar(k % 10) >>

GenKind(i) ==
    CASE i % 3 = 0 -> << UsdcLower, "USDC", << "6" >> >>
      [] i % 3 = 1 -> << WethMixed, "WETHEREUM", Undefined >>
      [] i % 3 = 2 -> << USDC_CONTRACT, "usdc", << "6" >> >>

\* the i-th token transfer: value i, stamped (step * i) mod period seconds late
GenToken(i, step, period) ==
    Raw(TokenHash, GenTimeStamp((step * i) % period), ToDigits(i), GONDI_CONTRACT,
        GenKind(i)[1], GenKind(i)[2], GenKind(i)[3])

GenLedger(n, step, period) ==
    [ u \in Urls |-> IF u = tokenUrl THEN [ i \in 1..n |-> GenToken(i, step, period) ]
                     ELSE << BaseInternal >> ]

InitRecent ==
    /\ InitProcess
    /\ apiKey = TRUE
    /\ \E n \in 0..MaxTransactions, step \in {0, 1, 3, 7}, period \in {3, 10} :
          upstream = GenLedger(n, step, period)
    /\ dlist = << >>
    /\ douts = << >>
    /\ StudiesIdle

\* Every GET succeeds and both collaborators answer from one price table.
NextRecent ==
    \/ Invoke
    \/ FetchAttempt(Success(upstream[furl]))
    \/ TokenSettled
    \/ PauseDone
    \/ InternalSettled
    \/ \E t \in PriceTables : GetRespond(Gives(t), Gives(t))

SpecRecent == InitRecent /\ [][NextRecent]_vars

Responded == pc = "responded" /\ apiResponse.sent

\* Both collaborators were called and neither threw.
CollaboratorsSucceeded ==
    /\ collaborators.aggregate.called /\ ~collaborators.aggregate.throws
    /\ collaborators.prices.called /\ ~collaborators.prices.throws

\* The response is { success: true } with no breakdown and no recent entry.
EmptySuccess ==
    /\ apiResponse.status = 200
    /\ apiResponse.body.success = TRUE
    /\ DOMAIN apiResponse.body.data.currencyBreakdown = { }
    /\ apiResponse.body.recentTransactions = << >>

(***************************************************************************)
(* C13.  A missing API credential is a request-level failure: with no      *)
(* credential GET /api/fees answers { success: false, error } with status  *)
(* 500, not { success: true } with empty aggregates.                       *)
(***************************************************************************)
C13_MissingCredentialFails ==
    (Responded /\ ~apiKey) =>
        /\ apiResponse.status = 500
        /\ apiResponse.body.success = FALSE

\* What the handler does instead: when the collaborators accept the empty
\* list, the request without a credential is answered as an empty success.
MissingCredentialAnsweredAsEmpty ==
    (Responded /\ ~apiKey /\ CollaboratorsSucceeded) => EmptySuccess

(***************************************************************************)
(* C14.  With a credential, when the token fetch, its fallback retry and   *)
(* the internal fetch all fail, ingestion returns an empty list and        *)
(* GET /api/fees answers { success: true } with empty aggregates and an    *)
(* empty recentTransactions, provided the aggregator and the price lookup  *)
(* succeed on the empty input.                                             *)
(***************************************************************************)
C14_AllFetchesFailIsEmptySuccess ==
    (/\ Responded
     /\ apiKey
     /\ tokenResults.status = "rejected"
     /\ retryResults.status = "rejected"
     /\ internalResults.status = "rejected"
     /\ CollaboratorsSucceeded)
    => (result = << >> /\ EmptySuccess)

\* Nine failed GETs, and the request answered with status 200.
C14_Witness ==
    /\ Responded
    /\ apiKey
    /\ upstream[tokenUrl] # << >>
    /\ tokenResults.status = "rejected"
    /\ retryResults.status = "rejected"
    /\ internalResults.status = "rejected"
    /\ CollaboratorsSucceeded
    /\ apiResponse.status = 200
    /\ apiResponse.body.recentTransactions = << >>

\* a >= b on JavaScript numbers: false when either is NaN.
NumGeq(a, b) == a # NaN /\ b # NaN /\ a >= b

\* a > b on JavaScript numbers.
NumGreater(a, b) == a # NaN /\ b # NaN /\ a > b

\* Entry e of recentTransactions shows Transaction tx.
Shows(e, tx) == e.hash = tx.hash /\ e.value = tx.value /\ e.timestamp = tx.timestamp

\* What C19 says of the list `recent` made from the ingested list `txs` with
\* the price table `table`.
IsRecentOf(recent, txs, table) ==
    /\ Len(recent) = (IF Len(txs) < 20 THEN Len(txs) ELSE 20)
    /\ \A i \in 1..(Len(recent) - 1) :
          NumGeq(recent[i].timestamp[1], recent[i + 1].timestamp[1])
    /\ \A i \in DOMAIN recent : \E j \in DOMAIN txs : Shows(recent[i], txs[j])
    /\ \A i, k \in DOMAIN recent :
          (i # k) => ~(recent[i].hash = recent[k].hash /\ recent[i].value = recent[k].value)
    /\ \A j \in DOMAIN txs :
          (\A i \in DOMAIN recent : ~Shows(recent[i], txs[j])) =>
              \A i \in DOMAIN recent :
                  ~NumGreater(txs[j].timestamp[1], recent[i].timestamp[1])
    /\ \A i \in DOMAIN recent :
          LET symbol == ToUpperCase(recent[i].tokenSymbol)
              price == IF symbol \in DOMAIN table THEN table[symbol] ELSE 0
              units == DecimalValue(recent[i].value) * price
          IN  /\ recent[i].usdValue.units = units
              /\ (units # 0 => recent[i].usdValue.scale = recent[i].tokenDecimal)

(***************************************************************************)
(* C19.  recentTransactions is the 20 most recent Transactions: its length *)
(* is min(20, n) for n ingested transactions, it is ordered by             *)
(* non-increasing timestamp, no transaction left out is more recent than   *)
(* one included, and each entry has usdValue = native amount * unit price, *)
(* the price being 0 when the lookup has no entry for the upper-cased      *)
(* symbol.                                                                 *)
(***************************************************************************)
C19_RecentTransactions ==
    (Responded /\ apiResponse.body.success) =>
        IsRecentOf(apiResponse.body.recentTransactions, result,
                   collaborators.prices.table)

\* The same, for ingested lists whose timestamps are all numbers.
RecentTransactionsWhenTimestamped ==
    (/\ Responded
     /\ apiResponse.body.success
     /\ \A j \in DOMAIN result : result[j].timestamp[1] # NaN)
    => IsRecentOf(apiResponse.body.recentTransactions, result,
                  collaborators.prices.table)

\* Twenty entries chosen from more than twenty transactions, some priced and
\* some not.
RecentWitness ==
    /\ Responded
    /\ Len(result) > 20
    /\ Len(apiResponse.body.recentTransactions) = 20
    /\ \E i \in 1..20 : apiResponse.body.recentTransactions[i].usdValue.units # 0
    /\ \E i \in 1..20 : apiResponse.body.recentTransactions[i].usdValue.units = 0
    /\ apiResponse.body.recentTransactions[1].timestamp
          # apiResponse.body.recentTransactions[20].timestamp

(***************************************************************************)
(* C20.  Every response of GET /api/fees, on the success path and on the   *)
(* failure path, carries headers that tell intermediaries not to cache it. *)
(***************************************************************************)
C20_ResponsesForbidCaching ==
    apiResponse.sent =>
        \E h \in apiResponse.headers :
            h[1] = "Cache-Control" /\ h[2] = "no-store, no-cache, must-revalidate, max-age=0"

\* The success path does carry them.
SuccessForbidsCaching ==
    (apiResponse.sent /\ apiResponse.body.success) =>
        /\ << "Cache-Control", "no-store, no-cache, must-revalidate, max-age=0" >>
              \in apiResponse.headers
        /\ << "Pragma", "no-cache" >> \in apiResponse.headers
        /\ << "Expires", "0" >> \in apiResponse.headers

(***************************************************************************)
(* C29.  A 2xx response whose envelope has the success status and a result *)
(* that is missing or is no list makes fetchWithRetry return an empty list *)
(* on that attempt: the call neither fails nor retries.                    *)
(***************************************************************************)
C29_NonListResultIsEmpty ==
    [][ (/\ fpc = "attempt"
         /\ gets' = gets + 1
         /\ lastResp'.kind = "json" /\ lastResp'.ok /\ lastResp'.status = "1"
         /\ ~lastResp'.isList)
        => (/\ fpc' = "returned"
            /\ fresult' = << >>
            /\ waits' = waits
            /\ ferror' = ferror)
      ]_vars

\* The second attempt received such an envelope and the call returned [],
\* although the ledger holds a record.
C29_Witness ==
    /\ fpc = "returned"
    /\ gets = 2
    /\ fretries = 3
    /\ lastResp = NotAList
    /\ fresult = << >>
    /\ upstream[furl] # << >>

(***************************************************************************)
(* C30.  A stale cache entry is never served, not even as a fallback: when *)
(* the entry for the URL is 30 minutes old or older and every attempt      *)
(* fails, fetchWithRetry throws the last attempt's error, and the stale    *)
(* entry stays in the cache as it was.                                     *)
(***************************************************************************)
C30_StaleEntryNeverServed ==
    [][ (/\ fpc = "attempt"
         /\ cache[furl].present
         /\ fstart - cache[furl].timestamp >= 30 * 60 * 1000
         /\ gets' = gets + 1
         /\ FailedAttempt(lastResp'))
        => (/\ cache' = cache
            /\ fpc' \in {"backoff", "threw"}
            /\ (gets' = fretries =>
                  /\ fpc' = "threw"
                  /\ ferror'.msg = (IF lastResp'.kind = "json" /\ lastResp'.message # ""
                                    THEN lastResp'.message ELSE lastResp'.text)))
      ]_vars
    /\ [][ \* a call that finds a stale entry goes to the network
           (/\ fpc = "idle" /\ fpc' # "idle"
            /\ cache[furl'].present
            /\ now - cache[furl'].timestamp >= 30 * 60 * 1000
            /\ fretries' >= 1)
           => (fpc' = "attempt" /\ gets' = 0)
         ]_vars

\* Thirty minutes after the entry was written three attempts failed: the call
\* threw, and the entry is still the one written at time 0.
C30_Witness ==
    /\ fpc = "threw"
    /\ fretries = 3
    /\ gets = 3
    /\ cache[furl].present
    /\ cache[furl].timestamp = 0
    /\ cache[furl].data = upstream[furl]
    /\ fstart = CACHE_DURATION

(***************************************************************************)
(* C21.  Any error thrown inside the pipeline of GET /api/fees (ingestion, *)
(* aggregation, price lookup, recent-transaction mapping) is caught: the   *)
(* response has status 500 and the fixed payload { success: false, error:  *)
(* 'Failed to fetch fee data' }, the same for every error, with nothing    *)
(* taken from the exception.                                               *)
(***************************************************************************)
PipelineThrew ==
    \/ threw
    \/ collaborators.aggregate.throws
    \/ collaborators.prices.throws
    \/ collaborators.caught # ""

C21_GenericFailurePayload ==
    (Responded /\ PipelineThrew) =>
        /\ apiResponse.status = 500
        /\ apiResponse.body = [ success |-> FALSE, error |-> "Failed to fetch fee data" ]
        /\ collaborators.caught # ""
        /\ apiResponse.body.error # collaborators.caught

\* The price lookup threw an error whose message holds a secret, after the
\* aggregation had succeeded over a non-empty ingestion.
C21_Witness ==
    /\ Responded
    /\ result # << >>
    /\ collaborators.aggregate.called /\ ~collaborators.aggregate.throws
    /\ collaborators.prices.throws
    /\ collaborators.caught = "Request failed with status code 401: invalid key sk-live-12"
    /\ apiResponse.status = 500

\* The mapping of the recent transactions threw.
C21_WitnessMapping ==
    /\ Responded
    /\ ~collaborators.prices.throws
    /\ collaborators.caught = NullishReadError
    /\ apiResponse.status = 500

(***************************************************************************)
(* Arbitrary-precision integers (BigInt) and IEEE 754 doubles (Number).    *)
(* A BigInt that is not negative is the sequence of its base-10000 limbs,  *)
(* least significant first, with no leading zero limb: 0n is << >>.        *)
(***************************************************************************)
MaxOf(S) == CHOOSE x \in S : \A y \in S : y <= x

BigStrip(a) ==
    LET used == { i \in DOMAIN a : a[i] # 0 }
    IN  IF used = { } THEN << >> ELSE SubSeq(a, 1, MaxOf(used))

\* The digit of a decimal literal p places from its right end.
LiteralDigit(s, p) == IF p <= Len(s) THEN DigitVal(s[Len(s) + 1 - p]) ELSE 0

\* The BigInt a decimal literal writes.
BigOfLiteral(s) ==
    BigStrip([ i \in 1..((Len(s) + 3) \div 4) |->
                 LiteralDigit(s, 4 * i - 3) + 10 * LiteralDigit(s, 4 * i - 2)
                 + 100 * LiteralDigit(s, 4 * i - 1) + 1000 * LiteralDigit(s, 4 * i) ])

BigLimb(a, i) == IF i <= Len(a) THEN a[i] ELSE 0

\* a compared with b at their most significant difference: -1, 0 or 1.
BigCmp(a, b) ==
    IF Len(a) < Len(b) THEN 0 - 1
    ELSE IF Len(a) > Len(b) THEN 1
    ELSE LET differ == { i \in DOMAIN a : a[i] # b[i] }
         IN  IF differ = { } THEN 0
             ELSE IF a[MaxOf(differ)] < b[MaxOf(differ)] THEN 0 - 1 ELSE 1

RECURSIVE BigAddFrom(_, _, _, _)
BigAddFrom(a, b, i, carry) ==
    IF i > Len(a) /\ i > Len(b)
    THEN (IF carry = 0 THEN << >> ELSE << carry >>)
    ELSE LET t == BigLimb(a, i) + BigLimb(b, i) + carry
         IN  << t % 10000 >> \o BigAddFrom(a, b, i + 1, t \div 10000)

BigAdd(a, b) == BigAddFrom(a, b, 1, 0)

\* a - b for a >= b
RECURSIVE BigSubFrom(_, _, _, _)
BigSubFrom(a, b, i, borrow) ==
    IF i > Len(a) THEN << >>
    ELSE LET t == a[i] - BigLimb(b, i) - borrow
         IN  IF t < 0 THEN << t + 10000 >> \o BigSubFrom(a, b, i + 1, 1)
             ELSE << t >> \o BigSubFrom(a, b, i + 1, 0)

BigSub(a, b) == BigStrip(BigSubFrom(a, b, 1, 0))

BigAbsDiff(a, b) == IF BigCmp(a, b) >= 0 THEN BigSub(a, b) ELSE BigSub(b, a)

\* a * n for a natural n up to 2^16
RECURSIVE BigTimesFrom(_, _, _, _)
BigTimesFrom(a, n, i, carry) ==
    IF i > Len(a) /\ carry = 0 THEN << >>
    ELSE LET t == BigLimb(a, i) * n + carry
         IN  << t % 10000 >> \o BigTimesFrom(a, n, i + 1, t \div 10000)

BigTimes(a, n) == IF n = 0 THEN << >> ELSE BigTimesFrom(a, n, 1, 0)

BigDouble(a) == BigTimes(a, 2)

\* a * 2^k, sixteen bits at a time
RECURSIVE BigTimesPow2(_, _)
BigTimesPow2(a, k) ==
    IF k >= 16 THEN BigTimesPow2(BigTimes(a, 2^16), k - 16) ELSE BigTimes(a, 2^k)

\* a * 5^k, six factors at a time
RECURSIVE BigTimesPow5(_, _)
BigTimesPow5(a, k) ==
    IF k >= 6 THEN BigTimesPow5(BigTimes(a, 5^6), k - 6) ELSE BigTimes(a, 5^k)

\* a * 10^k
BigTimesPow10(a, k) ==
    IF a = << >> THEN << >>
    ELSE [ i \in 1..(k \div 4) |-> 0 ] \o BigTimes(a, 10^(k % 4))

BigPow10(k) == BigTimesPow10(<< 1 >>, k)

\* a / 10^k and a % 10^k on BigInts: the limbs above and below 10^k, after a
\* is scaled so that 10^k falls between two limbs.
BigDivModPow10(a, k) ==
    LET limbs == (k + 3) \div 4
        scaled == BigTimes(a, 10^(4 * limbs - k))
        q == SubSeq(scaled, limbs + 1, Len(scaled))
    IN  [ q |-> q, r |-> BigSub(a, BigTimesPow10(q, k)) ]

BigIsOdd(a) == a # << >> /\ a[1] % 2 = 1

\* A double that is not negative is m * 2^e with m a BigInt below 2^53 (at
\* least 2^52 unless the double is 0).
MantissaBits == 53
TwoTo52 == BigTimesPow2(<< 1 >>, MantissaBits - 1)
TwoTo53 == BigTimesPow2(<< 1 >>, MantissaBits)
FloatZero == [ m |-> << >>, e |-> 0 ]

\* num / den with den = 10^d * 2^y: the power of two 2^e that brings
\* (num / den) / 2^e into [2^52, 2^53), found in steps of 64, 8 and 1 bits.
\* The result keeps the scaled numerator and the y of the denominator.
RECURSIVE FloatScale(_, _, _, _)
FloatScale(num, den, y, e) ==
    LET lo == BigTimesPow2(den, MantissaBits - 1)
        hi == BigDouble(lo)
    IN  IF BigCmp(num, BigTimesPow2(hi, 64)) >= 0
        THEN FloatScale(num, BigTimesPow2(den, 64), y + 64, e + 64)
        ELSE IF BigCmp(num, BigTimesPow2(hi, 8)) >= 0
        THEN FloatScale(num, BigTimesPow2(den, 8), y + 8, e + 8)
        ELSE IF BigCmp(num, hi) >= 0
        THEN FloatScale(num, BigDouble(den), y + 1, e + 1)
        ELSE IF BigCmp(BigTimesPow2(num, 64), lo) < 0
        THEN FloatScale(BigTimesPow2(num, 64), den, y, e - 64)
        ELSE IF BigCmp(BigTimesPow2(num, 8), lo) < 0
        THEN FloatScale(BigTimesPow2(num, 8), den, y, e - 8)
        ELSE IF BigCmp(num, lo) < 0
        THEN FloatScale(BigDouble(num), den, y, e - 1)
        ELSE [ num |-> num, y |-> y, e |-> e ]

\* The double nearest to (a / 10^d) * 2^e, ties to the even mantissa.  The
\* division by 10^d * 2^y is a multiplication by 5^y and a division by
\* 10^(d + y).
RoundToDouble(a, d, e) ==
    IF a = << >> THEN FloatZero
    ELSE LET s == FloatScale(a, BigPow10(d), 0, e)
             split == BigDivModPow10(BigTimesPow5(s.num, s.y), d + s.y)
             c == BigCmp(BigDouble(split.r), BigPow10(d + s.y))
             m == IF c > 0 \/ (c = 0 /\ BigIsOdd(split.q))
                  THEN BigAdd(split.q, << 1 >>) ELSE split.q
         IN  IF m = TwoTo53 THEN [ m |-> TwoTo52, e |-> s.e + 1 ]
             ELSE [ m |-> m, e |-> s.e ]

\* Number(b) for a BigInt b
NumberOfBigInt(b) == RoundToDouble(b, 0, 0)

\* x / 10^d on doubles, for a power of ten that is itself a double
FloatDividePow10(x, d) == RoundToDouble(x.m, d, x.e)

\* x + y on doubles that are not negative
FloatAdd(x, y) ==
    IF x.m = << >> THEN y
    ELSE IF y.m = << >> THEN x
    ELSE LET e == Min(x.e, y.e)
         IN  RoundToDouble(BigAdd(BigTimesPow2(x.m, x.e - e), BigTimesPow2(y.m, y.e - e)),
                           0, e)

(***************************************************************************)
(* parseTransactionValue.                                                  *)
(***************************************************************************)
\* 10 ** decimals is the exact power of ten up to this exponent.
MaxExactPowerOfTen == 22

\* BigInt(10 ** decimals) throws a RangeError when 10 ** decimals is no
\* integer: decimals NaN or negative.
DivisorThrows(decimals) == decimals = NaN \/ decimals < 0

\* The try block dropping the remainder term.
ParseTryQuotientOnly(value, decimals) ==
    IF value = Undefined \/ BigIntThrows(value) \/ DivisorThrows(decimals)
    THEN [ throws |-> TRUE, number |-> FloatZero ]
    ELSE [ throws |-> FALSE,
           number |-> NumberOfBigInt(BigDivModPow10(BigOfLiteral(value), decimals).q) ]

\* The try block: BigInt(value), the divisor, quotient and remainder, and the
\* sum of the two doubles.
ParseTry(value, decimals) ==
    IF value = Undefined \/ BigIntThrows(value) \/ DivisorThrows(decimals)
    THEN [ throws |-> TRUE, number |-> FloatZero ]
    ELSE LET bigIntValue == BigOfLiteral(value)
             split == BigDivModPow10(bigIntValue, decimals)
         IN  [ throws |-> FALSE,
               number |-> FloatAdd(NumberOfBigInt(split.q),
                                   FloatDividePow10(NumberOfBigInt(split.r), decimals)) ]

\* A catch block that lets the error escape.
ParseCatchRethrows == [ called |-> TRUE, threw |-> TRUE, number |-> FloatZero ]

\* The catch block: the error is logged and 0 is returned.
ParseCatch == [ called |-> TRUE, threw |-> FALSE, number |-> FloatZero ]

ParseTransactionValue(value, decimals) ==
    LET attempt == ParseTry(value, decimals)
    IN  IF attempt.throws THEN ParseCatch
        ELSE [ called |-> TRUE, threw |-> FALSE, number |-> attempt.number ]

\* Value arguments: digit strings around 2^53 and 2^64, with 27 leading
\* digits, short ones, with leading zeros, the empty string, undefined, and
\* strings that are no integer literal.
Chars(ds) == [ i \in DOMAIN ds |-> DigitChar(ds[i]) ]

ValueHeads ==
    { << >>, << 1 >>, << 0, 0, 7 >>,
      << 9, 0, 0, 7, 1, 9, 9, 2, 5, 4, 7, 4, 0 >>,
      << 1, 8, 4, 4, 6, 7, 4, 4, 0, 7, 3, 7, 0, 9, 5, 5, 1 >>,
      << 1, 2, 3, 4, 5, 6, 7, 8, 9, 0, 1, 2, 3, 4, 5, 6, 7, 8, 9, 0, 1, 2, 3, 4, 5, 6, 7 >> }

ValueTails ==
    { << >>, << 0 >>, << 5 >>, << 9, 9, 1 >>, << 9, 9, 2 >>, << 9, 9, 3 >>, << 9, 9, 4 >>,
      << 9, 9, 5 >>, << 6, 1, 6 >>, << 0, 0, 0, 0, 0, 0 >>, << 5, 0, 0, 0, 0, 0 >>,
      << 0, 0, 0, 0, 0, 1 >> }

IntegerLiterals == { Chars(h \o t) : h \in ValueHeads, t \in ValueTails }

NotIntegerLiterals ==
    { << "5", "a" >>, << "1", ".", "5" >>, << "1", "e", "6" >>, << "a", "b", "c" >>,
      Undefined }

DecimalsValues == { 0, 6, DEFAULT_DECIMALS, MaxExactPowerOfTen, NaN }

InitParse ==
    /\ InitProcess
    /\ apiKey = TRUE
    /\ upstream = [ u \in Urls |-> << >> ]
    /\ dlist = << >>
    /\ douts = << >>
    /\ AggregateIdle
    /\ OverlapIdle
    /\ VariantIdle
    /\ pvalue \in IntegerLiterals \cup NotIntegerLiterals
    /\ pdecimals \in DecimalsValues
    /\ preturn = NotCalledYet

\* One call of parseTransactionValue(pvalue, pdecimals).
ParseCall ==
    /\ ~preturn.called
    /\ preturn' = ParseTransactionValue(pvalue, pdecimals)
    /\ UNCHANGED << pvalue, pdecimals >>
    /\ UNCHANGED << apiKey, upstream, now, cache, calls, elapses >>
    /\ UNCHANGED fetchVars
    /\ UNCHANGED orchVars
    /\ UNCHANGED dedupVars
    /\ UNCHANGED apiVars
    /\ UNCHANGED aggVars
    /\ UNCHANGED overlapVars
    /\ UNCHANGED variant
    /\ UNCHANGED lastGet

NextParse == ParseCall

SpecParse == InitParse /\ [][NextParse]_vars

\* The call returned for a valid pair of arguments.
ValidPair ==
    /\ pvalue # Undefined
    /\ ~BigIntThrows(pvalue)
    /\ pdecimals \in 0..MaxExactPowerOfTen
ParsedValid == preturn.called /\ ValidPair

\* The quotient and remainder the code computes.
SplitOfArguments == BigDivModPow10(BigOfLiteral(pvalue), pdecimals)

\* | m * 2^e * 10^decimals - value | * 2^bits <= value
WithinRelativeError(number, value, decimals, bits) ==
    LET up == IF number.e >= 0 THEN number.e ELSE 0
        down == IF number.e < 0 THEN 0 - number.e ELSE 0
        got == BigTimesPow10(BigTimesPow2(number.m, up), decimals)
        want == BigTimesPow2(value, down)
    IN  BigCmp(BigTimesPow2(BigAbsDiff(got, want), bits), want) <= 0

\* The double is exactly the integer n.
IsInteger(number, n) ==
    BigTimesPow2(number.m, IF number.e >= 0 THEN number.e ELSE 0)
        = BigTimesPow2(n, IF number.e < 0 THEN 0 - number.e ELSE 0)

C22_WitnessOne ==
    /\ ParsedValid
    /\ pvalue = Chars(<< 1, 0, 0, 0, 0, 0, 0 >>)
    /\ pdecimals = 6
    /\ preturn.number = [ m |-> TwoTo52, e |-> 0 - 52 ]

\* 2^53 + 1 with 0 decimals gave the double 2^53: equality holds up to the
\* rounding of a double only.
C22_WitnessRounded ==
    /\ ParsedValid
    /\ pvalue = Chars(<< 9, 0, 0, 7, 1, 9, 9, 2, 5, 4, 7, 4, 0, 9, 9, 3 >>)
    /\ pdecimals = 0
    /\ preturn.number = [ m |-> TwoTo52, e |-> 1 ]

(***************************************************************************)
(* C23.  parseTransactionValue never throws: for a value that is not a     *)
(* valid integer literal it returns 0.                                     *)
(***************************************************************************)
C23_ParseNeverThrows ==
    preturn.called =>
        /\ ~preturn.threw
        /\ (pvalue = Undefined \/ BigIntThrows(pvalue) => preturn.number = FloatZero)

\* "1.5" was parsed with 6 decimals and 0 came back.
C23_Witness ==
    /\ preturn.called
    /\ pvalue = << "1", ".", "5" >>
    /\ pdecimals = 6
    /\ ~preturn.threw
    /\ preturn.number = FloatZero

(***************************************************************************)
(* C24.  A malformed numeric value in a raw record is never fatal to       *)
(* ingestion: when a raw record of a successfully fetched category carries *)
(* a value that is not a valid integer string, fetchEthereumTransactions   *)
(* still returns all the other valid records of both categories.           *)
(***************************************************************************)
IsMalformedValue(tx) == tx.value # Undefined /\ BigIntThrows(tx.value)

MalformedObtained ==
    \/ \E i \in DOMAIN TokenObtained.list : IsMalformedValue(TokenObtained.list[i])
    \/ \E i \in DOMAIN InternalObtained.list : IsMalformedValue(InternalObtained.list[i])

C24_MalformedValueNotFatal ==
    (pc = "done" /\ apiKey /\ MalformedObtained) =>
        /\ \A i \in DOMAIN TokenObtained.list :
              TokenVerdict(TokenObtained.list[i]) = "accept"
                  => \E j \in DOMAIN result : result[j] = TokenMap(TokenObtained.list[i])
        /\ \A i \in DOMAIN InternalObtained.list :
              InternalVerdict(InternalObtained.list[i]) = "accept"
                  => \E j \in DOMAIN result :
                        /\ result[j].hash = InternalObtained.list[i].hash
                        /\ result[j].value = InternalObtained.list[i].value

(***************************************************************************)
(* C25.  Sequential dispatch respects the rate-limit pause: within one     *)
(* invocation of fetchEthereumTransactions two requests for different      *)
(* categories are never issued back to back; between the last request for  *)
(* one category and the next request for another the orchestrator pauses   *)
(* at least 1000 ms.                                                       *)
(***************************************************************************)
\* This step issues an HTTP GET for a category other than the one of the
\* latest GET of the invocation.
GetForOtherCategory ==
    /\ gets' = gets + 1
    /\ fowner \in {"token", "internal", "retry"}
    /\ lastGet.url # "none"
    /\ lastGet.url # furl

C25_PauseBetweenCategories ==
    [][ GetForOtherCategory => now - lastGet.at >= 1000 ]_vars

\* What the code does: the pause precedes the internal fetch only; the direct
\* retry of the token fetch follows the internal fetch's last request with no
\* timer in between.
PauseBeforeInternalOnly ==
    [][ GetForOtherCategory =>
          /\ (fowner = "internal" => now - lastGet.at >= PAUSE_MS)
          /\ (fowner = "retry" => now = lastGet.at)
      ]_vars

(***************************************************************************)
(* aggregateFees and the grand total of GET /api/fees.                     *)
(***************************************************************************)
\* a * b on BigInts, limb by limb of b
RECURSIVE BigMulFrom(_, _, _)
BigMulFrom(a, b, i) ==
    IF i > Len(b) THEN << >>
    ELSE BigAdd(BigStrip([ k \in 1..(i - 1) |-> 0 ] \o BigTimes(a, b[i])),
                BigMulFrom(a, b, i + 1))

BigMul(a, b) == BigMulFrom(a, b, 1)

\* x * y on doubles that are not negative
FloatMultiply(x, y) ==
    IF x.m = << >> \/ y.m = << >> THEN FloatZero
    ELSE RoundToDouble(BigMul(x.m, y.m), 0, x.e + y.e)

\* A unit price (a whole number below 10000 here) as a double.
PriceNumber(p) == NumberOfBigInt(IF p = 0 THEN << >> ELSE << p >>)

\* The element of a singleton set.
The(S) == CHOOSE x \in S : TRUE

NoBreakdown(price) ==
    [ count |-> 0, totalAmount |-> FloatZero, totalUSD |-> FloatZero, price |-> price ]

\* One transaction added to the breakdown of its symbol: the count, the
\* native amount the Value Parser gives, and the amount times the unit price.
\* (Each intermediate value is bound as the element of a singleton set, so
\* that it is computed once.)
Accumulate(b, tx) ==
    The({ The({ The({ [ count |-> b.count + 1,
                        totalAmount |-> FloatAdd(b.totalAmount, amount),
                        totalUSD |-> FloatAdd(b.totalUSD, usd),
                        price |-> b.price ] :
                      usd \in { FloatMultiply(amount, price) } }) :
                price \in { PriceNumber(b.price) } }) :
          amount \in { ParseTransactionValue(tx.value, tx.tokenDecimal).number } })

\* The breakdown of symbol c after the first n transactions of the list.
RECURSIVE BreakdownUpTo(_, _, _, _)
BreakdownUpTo(txs, c, prices, n) ==
    IF n = 0 THEN NoBreakdown(PriceOf(prices, ToUpperCase(c)))
    ELSE The({ IF txs[n].tokenSymbol = c THEN Accumulate(before, txs[n]) ELSE before :
               before \in { BreakdownUpTo(txs, c, prices, n - 1) } })

\* The symbols in the order in which the list first shows them: the order of
\* the keys of currencyBreakdown.
SymbolOrder(txs) ==
    LET firsts == SubseqAt(txs, { i \in DOMAIN txs :
                                    \A j \in 1..(i - 1) :
                                        txs[j].tokenSymbol # txs[i].tokenSymbol }, 1)
    IN  [ i \in DOMAIN firsts |-> firsts[i].tokenSymbol ]

\* aggregateFees(transactions), with the prices the lookup gave.
AggregateFees(txs, prices) ==
    [ currencyBreakdown |->
        [ c \in { txs[i].tokenSymbol : i \in DOMAIN txs } |->
            BreakdownUpTo(txs, c, prices, Len(txs)) ],
      keys |-> SymbolOrder(txs) ]

\* A total that is the first breakdown's only.
GrandTotalFirstOnly(aggregated) ==
    IF aggregated.keys = << >> THEN FloatZero
    ELSE aggregated.currencyBreakdown[aggregated.keys[1]].totalUSD

RECURSIVE GrandTotalUpTo(_, _)
GrandTotalUpTo(aggregated, n) ==
    IF n = 0 THEN FloatZero
    ELSE The({ FloatAdd(before, aggregated.currencyBreakdown[aggregated.keys[n]].totalUSD) :
               before \in { GrandTotalUpTo(aggregated, n - 1) } })

\* Object.values(aggregated.currencyBreakdown).reduce((sum, b) => sum + b.totalUSD, 0)
GrandTotal(aggregated) == GrandTotalUpTo(aggregated, Len(aggregated.keys))

\* Transactions of the study: 0.1, 0.2 and 0.3 USDC, 0.2 WETH (under the
\* alias symbol, with no tokenDecimal) and 0.3 ETH.
Zeros(n) == [ i \in 1..n |-> 0 ]
AggregateUniverse ==
    << TokenMap(Raw("0xa1", TsLater, Chars(<< 1 >> \o Zeros(5)), GONDI_CONTRACT, UsdcLower,
                    "USDC", << "6" >>)),
       TokenMap(Raw("0xa2", TsLater, Chars(<< 2 >> \o Zeros(5)), GONDI_CONTRACT, UsdcLower,
                    "USDC", << "6" >>)),
       TokenMap(Raw("0xa3", TsLater, Chars(<< 3 >> \o Zeros(5)), GONDI_CONTRACT, UsdcLower,
                    "USDC", << "6" >>)),
       TokenMap(Raw("0xa4", TsLater, Chars(<< 2 >> \o Zeros(17)), GONDI_CONTRACT, WethMixed,
                    "WETHEREUM", Undefined)),
       InternalMap(Raw("0xa5", TsLater, Chars(<< 3 >> \o Zeros(17)), GONDI_CONTRACT,
                       Undefined, NoSymbol, Undefined)) >>

MaxAggregated == 3   \* most transactions in an aggregated list

ListPermutations(list) ==
    { [ i \in DOMAIN list |-> list[p[i]] ] :
        p \in { f \in [ DOMAIN list -> DOMAIN list ] :
                  \A i, j \in DOMAIN list : f[i] = f[j] => i = j } }

InitAggregate ==
    /\ InitProcess
    /\ apiKey = TRUE
    /\ upstream = [ u \in Urls |-> << >> ]
    /\ dlist = << >>
    /\ douts = << >>
    /\ ParseIdle
    /\ OverlapIdle
    /\ VariantIdle
    /\ \E chosen \in SUBSET DOMAIN AggregateUniverse :
          /\ Cardinality(chosen) <= MaxAggregated
          /\ atxs = SubseqAt(AggregateUniverse, chosen, 1)
    /\ aperm \in ListPermutations(atxs)
    /\ aprices \in PriceTables
    /\ aouts = NotAggregated

Aggregated(txs, prices) ==
    The({ [ aggregated |-> aggregated, grandTotalUSD |-> GrandTotal(aggregated) ] :
          aggregated \in { AggregateFees(txs, prices) } })

\* aggregateFees and the grand total, for the list and for its permutation.
AggregateBoth ==
    /\ ~aouts.done
    /\ aouts' = The({ [ done |-> TRUE, first |-> out[1], second |-> out[2] ] :
                      out \in { [ list \in 1..2 |->
                                   Aggregated(IF list = 1 THEN atxs ELSE aperm, aprices) ] } })
    /\ UNCHANGED << atxs, aperm, aprices >>
    /\ UNCHANGED << apiKey, upstream, now, cache, calls, elapses >>
    /\ UNCHANGED fetchVars
    /\ UNCHANGED orchVars
    /\ UNCHANGED dedupVars
    /\ UNCHANGED apiVars
    /\ UNCHANGED parseVars
    /\ UNCHANGED overlapVars
    /\ UNCHANGED variant
    /\ UNCHANGED lastGet

NextAggregate == AggregateBoth

SpecAggregate == InitAggregate /\ [][NextAggregate]_vars

\* | x - y | * 2^bits <= max(x, y) on doubles
FloatWithin(x, y, bits) ==
    LET e == Min(x.e, y.e)
        xs == BigTimesPow2(x.m, x.e - e)
        ys == BigTimesPow2(y.m, y.e - e)
    IN  BigCmp(BigTimesPow2(BigAbsDiff(xs, ys), bits),
               IF BigCmp(xs, ys) >= 0 THEN xs ELSE ys) <= 0

FirstBreakdowns == aouts.first.aggregated.currencyBreakdown
SecondBreakdowns == aouts.second.aggregated.currencyBreakdown

\* Count and native amount of a symbol without a price still accumulate, and
\* its fiat sum is 0.
UnpricedStillCounted(breakdowns) ==
    \A c \in DOMAIN breakdowns :
        breakdowns[c].price = 0 =>
            /\ breakdowns[c].totalUSD = FloatZero
            /\ breakdowns[c].count = Cardinality({ i \in DOMAIN atxs : atxs[i].tokenSymbol = c })
            /\ breakdowns[c].count > 0
            /\ breakdowns[c].totalAmount # FloatZero

(***************************************************************************)
(* C28.  Aggregation is order-independent: for a Transaction list and      *)
(* every permutation of it aggregateFees yields, with the same prices, the *)
(* same per-symbol count, native sum and fiat sum, and the grand total of  *)
(* the read API is the same; a symbol with no price contributes zero fiat  *)
(* value and still accumulates count and native amount.                    *)
(***************************************************************************)
C28_AggregationOrderIndependent ==
    aouts.done =>
        /\ FirstBreakdowns = SecondBreakdowns
        /\ aouts.first.grandTotalUSD = aouts.second.grandTotalUSD
        /\ UnpricedStillCounted(FirstBreakdowns)

(***************************************************************************)
(* C28, amended.  The per-symbol counts and unit prices are the same for   *)
(* every permutation; the native sums, the fiat sums and the grand total   *)
(* are sums of doubles and agree up to their rounding (a relative          *)
(* difference of at most 2^-50); they are identical between the two orders *)
(* of a list of two transactions.  A symbol with no price contributes zero *)
(* fiat value and still accumulates count and native amount.               *)
(***************************************************************************)
C28_OrderIndependentUpToRounding ==
    aouts.done =>
        /\ DOMAIN FirstBreakdowns = DOMAIN SecondBreakdowns
        /\ \A c \in DOMAIN FirstBreakdowns :
              /\ FirstBreakdowns[c].count = SecondBreakdowns[c].count
              /\ FirstBreakdowns[c].price = SecondBreakdowns[c].price
              /\ FloatWithin(FirstBreakdowns[c].totalAmount,
                             SecondBreakdowns[c].totalAmount, 50)
              /\ FloatWithin(FirstBreakdowns[c].totalUSD, SecondBreakdowns[c].totalUSD, 50)
        /\ FloatWithin(aouts.first.grandTotalUSD, aouts.second.grandTotalUSD, 50)
        /\ (Len(atxs) <= 2 =>
              /\ FirstBreakdowns = SecondBreakdowns
              /\ aouts.first.grandTotalUSD = aouts.second.grandTotalUSD)
        /\ UnpricedStillCounted(FirstBreakdowns)
        /\ UnpricedStillCounted(SecondBreakdowns)

\* 0.1, 0.2 and 0.3 USDC were summed in two orders and the sums differ in
\* their last bit.
C28_Witness ==
    /\ aouts.done
    /\ Len(atxs) = 3
    /\ DOMAIN FirstBreakdowns = { "USDC" }
    /\ FirstBreakdowns["USDC"].count = 3
    /\ FirstBreakdowns["USDC"].totalAmount # SecondBreakdowns["USDC"].totalAmount

\* A priced and an unpriced symbol were aggregated in both orders.
C28_WitnessUnpriced ==
    /\ aouts.done
    /\ atxs # aperm
    /\ \E c \in DOMAIN FirstBreakdowns : FirstBreakdowns[c].price = 0
    /\ \E c \in DOMAIN FirstBreakdowns : FirstBreakdowns[c].price # 0
    /\ aouts.first.grandTotalUSD # FloatZero

(***************************************************************************)
(* Overlapping requests.  Two invocations of fetchEthereumTransactions run *)
(* in one process: each has its own locals, they share API_CACHE and the   *)
(* clock, and the event loop runs one of them at a time from one await to  *)
(* the next.                                                               *)
(***************************************************************************)
\* The locals of the invocation that is running.
Own ==
    [ fpc |-> fpc, fowner |-> fowner, furl |-> furl, fretries |-> fretries, fi |-> fi,
      fstart |-> fstart, fresult |-> fresult, ferror |-> ferror, gets |-> gets,
      waits |-> waits, lastResp |-> lastResp, pc |-> pc, tokenResults |-> tokenResults,
      internalResults |-> internalResults, retryResults |-> retryResults,
      transactions |-> transactions, result |-> result, threw |-> threw,
      fetchCalls |-> fetchCalls, calls |-> calls, lastGet |-> lastGet ]

MaxSwitches == 3   \* most turns of the event loop from one invocation to the other

\* The event loop turns to the other invocation: the running one is parked at
\* its await, the other one's continuation is next.
Switch ==
    /\ switches < MaxSwitches
    /\ switches' = switches + 1
    /\ peer' = Own
    /\ running' = 3 - running
    /\ fpc' = peer.fpc
    /\ fowner' = peer.fowner
    /\ furl' = peer.furl
    /\ fretries' = peer.fretries
    /\ fi' = peer.fi
    /\ fstart' = peer.fstart
    /\ fresult' = peer.fresult
    /\ ferror' = peer.ferror
    /\ gets' = peer.gets
    /\ waits' = peer.waits
    /\ lastResp' = peer.lastResp
    /\ pc' = peer.pc
    /\ tokenResults' = peer.tokenResults
    /\ internalResults' = peer.internalResults
    /\ retryResults' = peer.retryResults
    /\ transactions' = peer.transactions
    /\ result' = peer.result
    /\ threw' = peer.threw
    /\ fetchCalls' = peer.fetchCalls
    /\ calls' = peer.calls
    /\ lastGet' = peer.lastGet
    /\ UNCHANGED << apiKey, upstream, now, cache, elapses >>
    /\ UNCHANGED dedupVars
    /\ UNCHANGED apiVars
    /\ UNCHANGED parseVars
    /\ UNCHANGED aggVars
    /\ UNCHANGED variant

\* Ledgers of the two categories: well formed, and with a token value that
\* is no integer literal.
OverlapLedgers ==
    { [ u \in Urls |-> IF u = tokenUrl THEN << TokA, TokB >> ELSE << IntA >> ],
      [ u \in Urls |-> IF u = tokenUrl THEN << TokA, TokC >> ELSE << IntA >> ] }

\* A failed attempt, a result list, a result that is no list.
OverlapResponses(url) == { Http429, Success(upstream[url]), NotAList }

InitOverlap ==
    /\ InitProcess
    /\ apiKey = TRUE
    /\ upstream \in OverlapLedgers
    /\ dlist = << >>
    /\ douts = << >>
    /\ StudiesIdle

NextOverlap ==
    \/ Invoke
    \/ \E resp \in OverlapResponses(furl) : FetchAttempt(resp)
    \/ FetchBackoff
    \/ TokenSettled
    \/ PauseDone
    \/ InternalSettled
    \/ RetrySettled
    \/ Switch

SpecOverlap == InitOverlap /\ [][NextOverlap]_vars

\* The lists fetchWithRetry returns for the successful responses to a GET of
\* `url`: the result list, or the empty list for a result that is no list.
SuccessfulLists(url) ==
    { AttemptOutcome(resp).list :
        resp \in { r \in Responses(url) : r.kind = "json" /\ r.status = "1" } }

\* The step is a GET of the running invocation whose response is cached.
CachingStep ==
    /\ running' = running
    /\ gets' = gets + 1
    /\ WritesCache(lastResp')

(***************************************************************************)
(* C26.  The Fetch Cache tolerates overlapping requests: under every       *)
(* interleaving of two invocations, each cache entry for a url holds a     *)
(* complete list returned by a successful upstream response for that url   *)
(* (never part of a list, a failure, or the other url's payload); an entry *)
(* changes only when an invocation caches the response to its own GET of   *)
(* that url, and after every such write the entry is the list just written *)
(* (the last write wins).                                                  *)
(***************************************************************************)
C26_CacheToleratesOverlap ==
    [][ /\ \A u \in Urls :
              /\ cache'[u].present => cache'[u].data \in SuccessfulLists(u)
              /\ cache'[u] # cache[u] => (CachingStep /\ furl = u)
        /\ CachingStep =>
              cache'[furl] = [ present |-> TRUE, data |-> AttemptOutcome(lastResp').list,
                               timestamp |-> now ]
      ]_vars

\* Both invocations had passed the cache check for the token url before either
\* response came; one cached the result list, then the other cached the empty
\* list of a result that is no list, and the entry holds the latter.
C26_Witness ==
    /\ fpc = "returned"
    /\ furl = tokenUrl
    /\ lastResp = NotAList
    /\ cache[tokenUrl].present
    /\ cache[tokenUrl].data = << >>
    /\ peer.tokenResults.status = "fulfilled"
    /\ peer.tokenResults.value = upstream[tokenUrl]
    /\ peer.lastGet.url = tokenUrl

\* The raw records an invocation with locals `l` obtained, per category.
TokenObtainedBy(l) ==
    IF l.tokenResults.status = "fulfilled" THEN l.tokenResults.value
    ELSE IF l.retryResults.status = "fulfilled" THEN l.retryResults.value
    ELSE << >>

InternalObtainedBy(l) ==
    IF l.internalResults.status = "fulfilled" THEN l.internalResults.value ELSE << >>

WellFormedFor(l) ==
    /\ \A i \in DOMAIN TokenObtainedBy(l) : TokenVerdict(TokenObtainedBy(l)[i]) # "throw"
    /\ \A i \in DOMAIN InternalObtainedBy(l) :
          InternalVerdict(InternalObtainedBy(l)[i]) # "throw"

\* What the invocation returned is the deduplicated normalisation of what it
\* obtained itself.
ReturnsOwnRecords(l) ==
    l.pc = "done" =>
        /\ ~l.threw
        /\ l.result = FirstOccurrences(ExpectedToken(TokenObtainedBy(l))
                                       \o ExpectedInternal(InternalObtainedBy(l)))

(***************************************************************************)
(* C27.  Overlapping invocations share no mutable state other than the     *)
(* Fetch Cache: under every interleaving, the list each invocation returns *)
(* is exactly the deduplicated normalisation of the token and internal     *)
(* payloads that this invocation itself obtained (from its own responses   *)
(* or from cache entries it read); no record of the other invocation's     *)
(* accumulator is added, lost or duplicated.                               *)
(***************************************************************************)
C27_InvocationsIsolated ==
    /\ ReturnsOwnRecords(Own)
    /\ ReturnsOwnRecords(peer)

\* The same statement over the invocations that obtained no record whose value
\* is no integer literal: there the code agrees with it.
InvocationsIsolatedWhenWellFormed ==
    /\ WellFormedFor(Own) => ReturnsOwnRecords(Own)
    /\ WellFormedFor(peer) => ReturnsOwnRecords(peer)

\* Both invocations returned, with different lists: one took the token records
\* from the cache entry the other had written and had every internal GET
\* fail, the other obtained both categories from its own responses.
OverlapDifferentReturns ==
    /\ pc = "done"
    /\ peer.pc = "done"
    /\ result # peer.result
    /\ result # << >>
    /\ peer.result # << >>
    /\ fetchCalls[tokenUrl] = 1
    /\ tokenResults.status = "fulfilled"
    /\ internalResults.status = "rejected"
    /\ lastGet.url = internalUrl
    /\ peer.internalResults.status = "fulfilled"

\* The response makes the attempt return a list: a successful envelope or "no
\* results".
ReturnsList(resp) == SuccessEnvelope(resp) \/ NoResultsEnvelope(resp)

\* The step is a GET of the running fetchWithRetry call.
GetStep == fpc = "attempt" /\ gets' = gets + 1

(***************************************************************************)
(* C31.  The first successful attempt ends the fetch: the attempt of       *)
(* fetchWithRetry whose response gives a list (a successful envelope or    *)
(* "No transactions found") returns; every attempt before it failed and    *)
(* was followed by one backoff wait, so the GETs issued are as many as the *)
(* 1-based index of that attempt; and once the call has returned it issues *)
(* no further GET and waits no further backoff.                            *)
(***************************************************************************)
C31_FirstSuccessEndsFetch ==
    [][ /\ (GetStep /\ ReturnsList(lastResp')) =>
              /\ fpc' = "returned"
              /\ gets' = fi + 1
              /\ waits' = waits
              /\ Len(waits) = fi
        /\ (GetStep /\ ~ReturnsList(lastResp')) => fpc' \in {"backoff", "threw"}
        /\ fpc = "returned" =>
              \/ fpc' = "returned" /\ gets' = gets /\ waits' = waits /\ now' = now
              \/ fpc' = "idle"
      ]_vars

\* Two attempts failed and were waited for, the third one found "No
\* transactions found": three GETs, two waits, and the call returned.
C31_Witness ==
    /\ fpc = "returned"
    /\ fretries = 5
    /\ gets = 3
    /\ waits = << 1000, 2000 >>
    /\ NoResultsEnvelope(lastResp)
    /\ fresult = << >>

(***************************************************************************)
(* One invocation under fair scheduling: every HTTP request eventually     *)
(* returns or fails, every timer eventually fires, and every continuation  *)
(* that is ready eventually runs.                                          *)
(***************************************************************************)
\* The ledgers hold no record: which GETs are issued and whether the
\* invocation returns depends on the responses' status only.
InitLive ==
    /\ InitProcess
    /\ apiKey \in BOOLEAN
    /\ upstream = [ u \in Urls |-> << >> ]
    /\ dlist = << >>
    /\ douts = << >>
    /\ StudiesIdle

\* One invocation, from its call to its return.
NextLive ==
    \/ Invoke
    \/ \E resp \in OrchestratorResponses(furl) : FetchAttempt(resp)
    \/ FetchBackoff
    \/ TokenSettled
    \/ PauseDone
    \/ InternalSettled
    \/ RetrySettled

SpecLive == InitLive /\ [][NextLive]_vars /\ WF_vars(NextLive)

\* The most GETs a fetchWithRetry call of the invocation issues, and the most
\* fetchWithRetry calls: the first token fetch, the internal fetch, the retry.
GetsPerInvocation == DEFAULT_RETRIES * (1 + 1 + 1)

(***************************************************************************)
(* C32.  Every invocation of fetchEthereumTransactions terminates,         *)
(* provided each HTTP request eventually returns or fails: it issues at    *)
(* most 3 GETs for the first token fetch, at most 3 for the internal       *)
(* fetch and at most 3 for the token fallback retry, at most 9 in total,   *)
(* and then returns.                                                       *)
(***************************************************************************)
C32_InvocationTerminates ==
    /\ [](/\ gets <= DEFAULT_RETRIES
          /\ fetchCalls[tokenUrl] <= 2
          /\ fetchCalls[internalUrl] <= 1
          /\ lastGet.n <= GetsPerInvocation
          /\ lastGet.n <= DEFAULT_RETRIES * (fetchCalls[tokenUrl] + fetchCalls[internalUrl])
          /\ (pc = "tokenFetch" => lastGet.n <= DEFAULT_RETRIES))
    /\ ((pc \notin {"idle", "done"}) ~> (pc = "done"))

\* The invocation returned after nine GETs: three failed for the first token
\* fetch, three for the internal fetch, three for the retry.
C32_Witness ==
    /\ pc = "done"
    /\ lastGet.n = 9
    /\ tokenResults.status = "rejected"
    /\ internalResults.status = "rejected"
    /\ retryResults.status = "rejected"
    /\ result = << >>

(***************************************************************************)
(* The order of one invocation's requests and of the records it returns.   *)
(***************************************************************************)
\* A GET was issued in this step.
GetIssued == lastGet'.n = lastGet.n + 1

\* The records of the internal category carry the symbol the internal map
\* callback gives them.
InternalCategory(t) == t.tokenSymbol = "ETH"

\* No record of the internal category stands before one of the token category.
TokenBeforeInternal(list) ==
    \A i, j \in DOMAIN list :
        (InternalCategory(list[i]) /\ ~InternalCategory(list[j])) => j < i

\* Of a token record and an internal record of the accumulator with the same
\* hash and value, the returned list holds the token record only.
TokenRecordSurvives(acc, list) ==
    \A i, j \in DOMAIN acc :
        (/\ ~InternalCategory(acc[i])
         /\ InternalCategory(acc[j])
         /\ SameEvent(acc[i], acc[j]))
        => /\ \E k \in DOMAIN list : list[k] = acc[i]
           /\ \A k \in DOMAIN list : list[k] # acc[j]

(***************************************************************************)
(* C33.  In one invocation every GET of the first token fetch precedes     *)
(* every GET of the internal fetch, and the token retry starts, and issues *)
(* its GETs, only after the internal fetch has settled; in the accumulator *)
(* and in the returned list the token records stand before the internal    *)
(* records, whichever token fetch supplied them, so that of a token record *)
(* and an internal record with the same hash and value the token record is *)
(* the one returned.                                                       *)
(***************************************************************************)
C33_TokenThenInternalThenRetry ==
    [][ /\ GetIssued =>
              \/ /\ lastGet'.url = tokenUrl
                 /\ pc = "tokenFetch"
                 /\ fowner = "token"
                 /\ fetchCalls = [ NoFetchCalls EXCEPT ![tokenUrl] = 1 ]
                 /\ tokenResults = NotSettled
                 /\ internalResults = NotSettled
              \/ /\ lastGet'.url = internalUrl
                 /\ pc = "internalFetch"
                 /\ fowner = "internal"
                 /\ tokenResults # NotSettled
                 /\ internalResults = NotSettled
                 /\ fetchCalls[tokenUrl] = 1
              \/ /\ lastGet'.url = tokenUrl
                 /\ pc = "retryFetch"
                 /\ fowner = "retry"
                 /\ tokenResults.status = "rejected"
                 /\ internalResults # NotSettled
                 /\ retryResults = NotSettled
        /\ (pc' = "retryFetch" /\ pc # "retryFetch") =>
              /\ pc = "internalFetch"
              /\ FetchDone
              /\ internalResults' # NotSettled
        /\ (pc' = "done" /\ pc # "done") =>
              /\ TokenBeforeInternal(transactions')
              /\ TokenBeforeInternal(result')
              /\ TokenRecordSurvives(transactions', result') ]_vars

\* The first token fetch failed, the retry supplied a token record and the
\* internal fetch a record with the same hash and value: the token record is
\* the one returned.
C33_Witness ==
    /\ pc = "done"
    /\ tokenResults.status = "rejected"
    /\ retryResults.status = "fulfilled"
    /\ internalResults.status = "fulfilled"
    /\ Len(transactions) = 2
    /\ ~InternalCategory(transactions[1])
    /\ InternalCategory(transactions[2])
    /\ SameEvent(transactions[1], transactions[2])
    /\ result = << transactions[1] >>

(***************************************************************************)
(* The three-category variant of fetchEthereumTransactions.  Its           *)
(* fetchWithRetry has no cache and another backoff; the three fetches run  *)
(* one after the other without a pause, the token retry comes after the    *)
(* third.  The token and internal filter and map callbacks are those of    *)
(* the canonical function, statement for statement (NormalizeToken,        *)
(* NormalizeInternal).                                                     *)
(***************************************************************************)
VARIANT_RETRIES == 3
VARIANT_BACKOFF_BASE == 2000

\* The try block of the variant's fetchWithRetry for one response.
VariantAttemptOutcome(resp) ==
    IF resp.kind = "reject"
    THEN [ fails |-> TRUE, list |-> << >>, error |-> [ type |-> "network", msg |-> resp.text ] ]
    ELSE IF ~resp.ok
    THEN [ fails |-> TRUE, list |-> << >>, error |-> [ type |-> "http", msg |-> resp.text ] ]
    ELSE IF resp.kind = "badjson"
    THEN [ fails |-> TRUE, list |-> << >>, error |-> [ type |-> "syntax", msg |-> resp.text ] ]
    ELSE IF resp.status = "0" /\ resp.message = "No transactions found"
    THEN [ fails |-> FALSE, list |-> << >>, error |-> NoError ]
    ELSE IF resp.status = "0"
    THEN [ fails |-> TRUE, list |-> << >>,
           error |-> [ type |-> "etherscan",
                       msg |-> IF resp.message # "" THEN resp.message ELSE resp.text ] ]
    ELSE [ fails |-> FALSE, list |-> IF resp.isList THEN resp.list ELSE << >>,
           error |-> NoError ]

\* 2000 * (i + 1)
VariantBackoffDelay(i) == VARIANT_BACKOFF_BASE * (i + 1)

\* The normal filter callback on one record.
NormalVerdict(tx) ==
    IF NumLess(ParseInt(tx.timeStamp), START_TIMESTAMP) THEN "reject"
    ELSE IF ToLowerCase(tx.to) # ToLowerCase(GONDI_CONTRACT) THEN "reject"
    ELSE IF ~Truthy(tx.value) THEN "reject"
    ELSE IF BigIntThrows(tx.value) THEN "throw"
    ELSE IF BigIntPositive(tx.value) THEN "accept"
    ELSE "reject"

\* The normal map callback.
NormalMap(tx) ==
    [ hash |-> tx.hash,
      timestamp |-> TimesThousand(ParseInt(tx.timeStamp)),
      value |-> tx.value,
      tokenSymbol |-> "ETH",
      tokenDecimal |-> 18,
      from |-> tx.from, to |-> tx.to, network |-> "ethereum",
      blockNumber |-> ParseInt(tx.blockNumber) ]

\* normalResults.value.filter(..).map(..)
NormalizeNormal(list) ==
    IF \E i \in DOMAIN list : NormalVerdict(list[i]) = "throw"
    THEN [ threw |-> TRUE, list |-> << >> ]
    ELSE LET kept == SelectSeq(list, LAMBDA tx : NormalVerdict(tx) = "accept")
         IN  [ threw |-> FALSE,
               list |-> [i \in DOMAIN kept |-> NormalMap(kept[i])] ]

\* The variant's outer catch block: return [].
VariantCaught(v) == [ v EXCEPT !.pc = "done", !.call = "none", !.result = << >> ]

\* From "Process internal ETH transactions" to the return statement of the
\* variant, with the accumulator as the token branch left it.
VariantFinish(v, acc) ==
    LET internal == IF v.internalResults.status = "fulfilled"
                    THEN NormalizeInternal(v.internalResults.value)
                    ELSE [ threw |-> FALSE, list |-> << >> ]
        normal   == IF v.normalResults.status = "fulfilled"
                    THEN NormalizeNormal(v.normalResults.value)
                    ELSE [ threw |-> FALSE, list |-> << >> ]
    IN  IF internal.threw
        THEN [ VariantCaught(v) EXCEPT !.transactions = acc ]
        ELSE IF normal.threw
        THEN [ VariantCaught(v) EXCEPT !.transactions = acc \o internal.list ]
        ELSE [ v EXCEPT !.pc = "done", !.call = "none",
                        !.transactions = acc \o internal.list \o normal.list,
                        !.result = Dedup(acc \o internal.list \o normal.list) ]

\* The token branch of the variant once its direct retry has ended.
VariantAfterRetry(v) ==
    IF v.retryResults.status = "fulfilled"
    THEN LET n == NormalizeToken(v.retryResults.value)
         IN  VariantFinish(v, IF n.threw THEN << >> ELSE n.list)
    ELSE VariantFinish(v, << >>)

\* The three fetches have settled: the token branch, up to the next await.
VariantProcess(v) ==
    IF v.tokenResults.status = "fulfilled"
    THEN LET n == NormalizeToken(v.tokenResults.value)
         IN  IF n.threw THEN VariantCaught(v) ELSE VariantFinish(v, n.list)
    ELSE [ v EXCEPT !.pc = "attempt", !.call = "retry", !.i = 0 ]

\* A fetchWithRetry call of the variant has ended with `settled`: the
\* function goes on to its next await.
VariantSettle(v, settled) ==
    CASE v.call = "token" ->
           [ v EXCEPT !.tokenResults = settled,
                      !.pc = "attempt", !.call = "internal", !.i = 0 ]
      [] v.call = "internal" ->
           [ v EXCEPT !.internalResults = settled,
                      !.pc = "attempt", !.call = "normal", !.i = 0 ]
      [] v.call = "normal" ->
           VariantProcess([ v EXCEPT !.normalResults = settled ])
      [] v.call = "retry" ->
           VariantAfterRetry([ v EXCEPT !.retryResults = settled ])

\* Everything but the variant's locals.
canonicalVars ==
    << apiKey, upstream, now, cache, calls, elapses, lastGet, fetchVars, orchVars,
       dedupVars, apiVars, parseVars, aggVars, overlapVars >>

\* The variant is called: the credential check and the first GET.
VariantInvoke ==
    /\ variant.pc = "idle"
    /\ variant' = IF CredentialMissing
                  THEN VariantCaught(variant)
                  ELSE [ variant EXCEPT !.pc = "attempt", !.call = "token", !.i = 0 ]
    /\ UNCHANGED canonicalVars

\* One loop iteration of the variant's fetchWithRetry: the GET, its response
\* and the catch block up to the backoff timer, or the return to the caller.
VariantAttempt(resp) ==
    /\ variant.pc = "attempt"
    /\ variant' =
         The({ IF ~out.fails
               THEN VariantSettle(fed, [ status |-> "fulfilled", value |-> out.list,
                                         reason |-> NoError ])
               ELSE IF fed.i = VARIANT_RETRIES - 1
               THEN VariantSettle(fed, [ status |-> "rejected", value |-> << >>,
                                         reason |-> out.error ])
               ELSE [ fed EXCEPT !.pc = "backoff",
                                 !.waits = Append(@, VariantBackoffDelay(fed.i)) ]
               : out \in { VariantAttemptOutcome(resp) },
                 fed \in { [ variant EXCEPT !.feed[variant.call] = Append(@, resp) ] } })
    /\ UNCHANGED canonicalVars

\* The variant's backoff timer fires: i++ and the loop test.
VariantBackoff ==
    /\ variant.pc = "backoff"
    /\ variant' =
         IF variant.i + 1 < VARIANT_RETRIES
         THEN [ variant EXCEPT !.pc = "attempt", !.i = @ + 1 ]
         ELSE VariantSettle([ variant EXCEPT !.i = @ + 1 ],
                            [ status |-> "fulfilled", value |-> << >>, reason |-> NoError ])
    /\ UNCHANGED canonicalVars

(***************************************************************************)
(* Both functions on the same responses: the variant runs first, then the  *)
(* canonical function, from an empty cache, receives for the n-th GET of   *)
(* each of its fetchWithRetry calls what the variant's call received.      *)
(***************************************************************************)
\* a normal transfer to the tracked contract
NorA == Raw("0x456", TsLater, V700, GONDI_CONTRACT, Undefined, NoSymbol, Undefined)
\* a normal transfer from before the cutoff
NorOld == Raw("0x456", TsBefore, V700, GONDI_CONTRACT, Undefined, NoSymbol, Undefined)
\* a normal transfer whose value is no integer literal
NorBad == Raw("0x456", TsLater, VBad, GONDI_CONTRACT, Undefined, NoSymbol, Undefined)

\* What the ledger service holds for the normal URL.
NormalLedgers == { << >>, << NorOld >>, << NorBad >>, << NorA >> }

VariantLedgers ==
    { [ u \in Urls |-> IF u = tokenUrl THEN << TokA, TokB >> ELSE << IntA >> ],
      [ u \in Urls |-> IF u = tokenUrl THEN << TokC >> ELSE << IntA >> ],
      [ u \in Urls |-> IF u = tokenUrl THEN << TokA >> ELSE << IntC >> ] }

\* A failed attempt, "no results" and a result list.
AgreementResponses(url) == { Http429, NoTransactions, Success(upstream[url]) }

\* The responses to a GET of the variant's current call.
VariantResponses ==
    IF variant.call = "normal"
    THEN { Http429 } \cup { Success(l) : l \in NormalLedgers }
    ELSE IF variant.call = "internal" THEN AgreementResponses(internalUrl)
    ELSE AgreementResponses(tokenUrl)

\* The response to the next GET of the canonical call: the one the variant's
\* call received at the same place, any response where it received none.
ReplayedResponses ==
    IF fowner \in VariantCalls /\ gets < Len(variant.feed[fowner])
    THEN { variant.feed[fowner][gets + 1] }
    ELSE AgreementResponses(furl)

InitAgreement ==
    /\ InitProcess
    /\ apiKey \in BOOLEAN
    /\ upstream \in VariantLedgers
    /\ dlist = << >>
    /\ douts = << >>
    /\ StudiesIdle

NextAgreement ==
    \/ VariantInvoke
    \/ \E resp \in VariantResponses : VariantAttempt(resp)
    \/ VariantBackoff
    \/ variant.pc = "done" /\ Invoke
    \/ variant.pc = "done" /\ \E resp \in ReplayedResponses : FetchAttempt(resp)
    \/ FetchBackoff
    \/ TokenSettled
    \/ PauseDone
    \/ InternalSettled
    \/ RetrySettled

SpecAgreement == InitAgreement /\ [][NextAgreement]_vars

\* Both functions have returned.
BothReturned == variant.pc = "done" /\ pc = "done"

\* The canonical calls received the responses of the variant's calls, all of
\* them and no other, and settled as the variant's did.
SameResponses ==
    /\ (fpc \in {"attempt", "backoff"}) =>
          (fowner \in VariantCalls /\ gets < Len(variant.feed[fowner]))
    /\ (fpc \in {"returned", "threw"}) =>
          (fowner \in VariantCalls /\ gets = Len(variant.feed[fowner]))
    /\ tokenResults # NotSettled => tokenResults = variant.tokenResults
    /\ internalResults # NotSettled => internalResults = variant.internalResults
    /\ retryResults # NotSettled => retryResults = variant.retryResults
    /\ pc = "done" => (retryResults = variant.retryResults)

\* The normal branch of the variant pushed no record.
NormalContributesNothing ==
    \/ variant.normalResults.status # "fulfilled"
    \/ NormalizeNormal(variant.normalResults.value).list = << >>

\* No normal record made the filter throw.
NormalWellFormed ==
    \/ variant.normalResults.status # "fulfilled"
    \/ ~NormalizeNormal(variant.normalResults.value).threw

(***************************************************************************)
(* C34.  With an empty cache and the same responses for the token and the  *)
(* internal URL, the three-category variant returns the list the canonical *)
(* function returns whenever its normal category contributes no record.    *)
(***************************************************************************)
C34_VariantAgrees ==
    (BothReturned /\ NormalContributesNothing) => result = variant.result

\* The same over the normal payloads in which every value is an integer
\* literal.
VariantAgreesWhenWellFormed ==
    /\ SameResponses
    /\ (BothReturned /\ NormalContributesNothing /\ NormalWellFormed) =>
          result = variant.result

\* Both returned the same non-empty list; the normal payload held a record
\* that the filter rejected.
VariantAgreementReached ==
    /\ BothReturned
    /\ variant.normalResults.status = "fulfilled"
    /\ variant.normalResults.value = << NorOld >>
    /\ variant.retryResults.status = "fulfilled"
    /\ Len(result) = 2
    /\ result = variant.result
====
